---- MODULE Spec2Model ----
(***************************************************************************)
(* Style-rule extraction and dual-backend rendering (scripts/*.py).        *)
(* Python strings are sequences of one-character strings; a character      *)
(* outside ASCII is the token "U<code point>".  Each component has its own *)
(* specification: Init draws the component's inputs, its action applies    *)
(* the function as the source computes it.                                 *)
(***************************************************************************)
EXTENDS Integers, Sequences, FiniteSets, TLC

VARIABLES
    pc,             \* position of the component under check
    style,          \* classify_paragraph: para.style.name (None when absent)
    text,           \* classify_paragraph: para.text
    role,           \* classify_paragraph: the returned role
    page_width,     \* analyze_page_layout: section.page_width in EMU (NoLength when absent)
    page_height,    \* analyze_page_layout: section.page_height in EMU
    paper_size,     \* analyze_page_layout: sec_info["paper_size"]
    style_rules,    \* get_role_format: the Style-Rule Model
    fmt_role,       \* get_role_format: the role resolved
    defaults,       \* get_role_format: the default record passed in
    fmt,            \* get_role_format: the record returned
    fmt_again,      \* the record a second call with the same arguments returns
    fmt_over,       \* the record a call with fmt as the default record returns
    content,        \* format_document: the Content Tree
    doc,            \* format_document: the paragraphs added to the document
    latex_text,     \* escape_latex: the text passed in
    escaped,        \* escape_latex(latex_text)
    escaped_twice,  \* escape_latex(escaped)
    paragraphs,     \* detect_citation_style: the texts of the paragraphs
    citation_style, \* detect_citation_style: the record returned
    para,           \* analyze_paragraph_format: the paragraph analysed
    info,           \* analyze_paragraph_format: the record returned
    document,       \* analyze_document: doc.paragraphs
    next_para,      \* analyze_document: the paragraph the first loop is at
    classified,     \* analyze_document: the records collected for each role
    formatting_summary, \* analyze_document: result["paragraph_formatting"]
    run_fmt,        \* set_run_format: the format record applied
    run_font,       \* set_run_format: the font of the run (rFonts slots, size, flags)
    layout,         \* setup_page: style_rules.get("page_layout")
    section,        \* setup_page: doc.sections[0]
    section_once,   \* the section as the first setup_page call left it
    tex_content,    \* generate_latex: the Content Tree
    tex_rules,      \* generate_latex: the Style-Rule Model
    is_chinese,     \* generate_latex: has_chinese_content(content)
    tex_lines,      \* generate_latex: the lines emitted so far
    tex_error,      \* generate_latex: the exception raised ("" when none)
    heap,           \* get_role_format: the dicts of the process, by identity
    heap_before,    \* the heap before the first get_role_format call
    rules_at,       \* style_rules["paragraph_formatting"]: role to the identity of its record
    defaults_at,    \* build_default_formats(): role to the identity of its record
    fmt_refs,       \* the identities get_role_format returned, in call order
    md_text,        \* The markdown text read from the input file
    md_sections     \* The sections parse_markdown returns

classifyVars == <<style, text, role>>
paperVars == <<page_width, page_height, paper_size>>
resolveVars == <<style_rules, fmt_role, defaults, fmt, fmt_again, fmt_over>>
formatVars == <<content, doc>>
escapeVars == <<latex_text, escaped, escaped_twice>>
citationVars == <<paragraphs, citation_style>>
paraVars == <<para, info>>
analyzeVars == <<document, next_para, classified, formatting_summary>>
runVars == <<run_fmt, run_font>>
pageVars == <<layout, section, section_once>>
latexVars == <<tex_content, tex_rules, is_chinese, tex_lines, tex_error>>
heapVars == <<heap, heap_before, rules_at, defaults_at, fmt_refs>>
markdownVars == <<md_text, md_sections>>
vars == <<pc, classifyVars, paperVars, resolveVars, formatVars, escapeVars, citationVars, paraVars, analyzeVars, runVars, pageVars, latexVars, heapVars, markdownVars>>

(***************************************************************************)
(* Python values and string primitives                                     *)
(***************************************************************************)
\* Python's None, and the value of a variable the component has not set yet.
None == <<"<None>">>
Unset == <<"<unset>">>

Min(S) == CHOOSE x \in S : \A y \in S : x <= y
Max(S) == CHOOSE x \in S : \A y \in S : x >= y

Digits == <<"0", "1", "2", "3", "4", "5", "6", "7", "8", "9">>
DigitChars == {Digits[i] : i \in 1..10}
UpperChars == <<"A", "B", "C", "D", "E", "F", "G", "H", "I", "J", "K", "L", "M", "N", "O", "P", "Q", "R", "S", "T", "U", "V", "W", "X", "Y", "Z">>  \* "ABCDEFGHIJKLMNOPQRSTUVWXYZ"
LowerChars == <<"a", "b", "c", "d", "e", "f", "g", "h", "i", "j", "k", "l", "m", "n", "o", "p", "q", "r", "s", "t", "u", "v", "w", "x", "y", "z">>  \* "abcdefghijklmnopqrstuvwxyz"
\* str.isspace() characters that occur in the inputs
Whitespace == {" ", "\t"}
\* CJK Unified Ideographs U+4E00..U+9FFF among the tokens of the inputs
CJKChars == {"U8868", "U56FE", "U6458", "U8981", "U5173", "U952E", "U8BCD", "U5F20", "U4E09", "U5B8B", "U4F53", "U5C0F", "U56DB", "U4E94", "U53F7", "U9ED1", "U65B9", "U6CD5", "U7D50", "U679C", "U89C1", "U81F4", "U8C22", "U53C2", "U8003", "U6587", "U732E"}

\* x or ""
OrEmpty(x) == IF x = None \/ x = <<>> THEN <<>> ELSE x

\* str.lower()
lower_char(c) ==
    IF \E i \in 1..Len(UpperChars) : UpperChars[i] = c
    THEN LowerChars[CHOOSE i \in 1..Len(UpperChars) : UpperChars[i] = c]
    ELSE c
lower(s) == [i \in 1..Len(s) |-> lower_char(s[i])]

\* str.strip()
strip(s) ==
    LET keep == {i \in 1..Len(s) : s[i] \notin Whitespace}
    IN  IF keep = {} THEN <<>> ELSE SubSeq(s, Min(keep), Max(keep))

\* str.startswith(prefix)
startswith(s, prefix) ==
    Len(s) >= Len(prefix) /\ SubSeq(s, 1, Len(prefix)) = prefix

\* sub in s
Contains(s, sub) ==
    \E i \in 1..(Len(s) - Len(sub) + 1) : SubSeq(s, i, i + Len(sub) - 1) = sub

\* The end of the longest run of characters of class cls that starts at i
\* (i - 1 when s[i] is not in cls): a greedy cls* from position i.
RunEnd(s, i, cls) ==
    LET stops == {j \in i..Len(s) : s[j] \notin cls}
    IN  IF stops = {} THEN Len(s) ELSE Min(stops) - 1

\* int(digits)
RECURSIVE IntOf(_)
IntOf(ds) ==
    IF Len(ds) = 0 THEN 0
    ELSE 10 * IntOf(SubSeq(ds, 1, Len(ds) - 1))
         + (CHOOSE v \in 0..9 : Digits[v + 1] = ds[Len(ds)])

\* str(n), n >= 0
RECURSIVE StrOf(_)
StrOf(n) ==
    IF n < 10 THEN <<Digits[n + 1]>>
    ELSE StrOf(n \div 10) \o <<Digits[(n % 10) + 1]>>

\* A text of n filler letters
Pad(n) == [i \in 1..n |-> "x"]

(***************************************************************************)
(* Role Classifier: analyze_docx.classify_paragraph                        *)
(***************************************************************************)
\* re.search(r"(\d+)", s): the first maximal digit run of s, None without one
search_digits(s) ==
    LET ds == {i \in 1..Len(s) : s[i] \in DigitChars}
    IN  IF ds = {} THEN None
        ELSE SubSeq(s, Min(ds), RunEnd(s, Min(ds), DigitChars))

\* re.match(r"^(figure|fig\.|table|\u8868|\u56fe)\s*\d", text, re.IGNORECASE)
CaptionWords == {<<"f", "i", "g", "u", "r", "e">>, <<"f", "i", "g", ".">>, <<"t", "a", "b", "l", "e">>, <<"U8868">>, <<"U56FE">>}  \* "figure", "fig.", "table", "\u8868", "\u56fe"
match_caption(t) ==
    \E w \in CaptionWords :
        /\ startswith(lower(t), w)
        /\ LET d == RunEnd(t, Len(w) + 1, Whitespace) + 1
           IN  d <= Len(t) /\ t[d] \in DigitChars

\* re.match(r"^\[?\d+\]?\s", text)
match_reference(t) ==
    LET a == IF Len(t) >= 1 /\ t[1] = "[" THEN 2 ELSE 1
        b == RunEnd(t, a, DigitChars)
        c == IF b + 1 <= Len(t) /\ t[b + 1] = "]" THEN b + 2 ELSE b + 1
    IN  b >= a /\ c <= Len(t) /\ t[c] \in Whitespace

\* Lines 169-174: the role of a paragraph whose style names a heading or a title
heading_role(style_name) ==
    IF Contains(style_name, <<"t", "i", "t", "l", "e">>) /\ ~Contains(style_name, <<"h", "e", "a", "d", "i", "n", "g">>)  \* "title", "heading"
    THEN <<"t", "i", "t", "l", "e">>  \* "title"
    ELSE <<"h", "e", "a", "d", "i", "n", "g", "_">> \o StrOf(IF search_digits(style_name) # None  \* "heading_"
                              THEN IntOf(search_digits(style_name)) ELSE 1)

\* Lines 176-196: the rules that follow the heading rule
is_caption(style_name, t) == startswith(style_name, <<"c", "a", "p", "t", "i", "o", "n">>) \/ match_caption(t)  \* "caption"
is_reference_style(style_name) == style_name \in {<<"b", "i", "b", "l", "i", "o", "g", "r", "a", "p", "h", "y">>, <<"r", "e", "f", "e", "r", "e", "n", "c", "e", "s">>}  \* "bibliography", "references"
is_reference_text(t) == match_reference(t) /\ Len(t) > 30
is_abstract(style_name, t) ==
    \/ Contains(style_name, <<"a", "b", "s", "t", "r", "a", "c", "t">>)  \* "abstract"
    \/ startswith(lower(t), <<"a", "b", "s", "t", "r", "a", "c", "t">>)  \* "abstract"
    \/ startswith(t, <<"U6458", "U8981">>)  \* "\u6458\u8981"
is_keywords(t) == startswith(lower(t), <<"k", "e", "y", "w", "o", "r", "d", "s">>) \/ startswith(t, <<"U5173", "U952E", "U8BCD">>)  \* "keywords", "\u5173\u952e\u8bcd"

\* classify_paragraph without text.strip()
classify_untrimmed(style_in, text_in) ==
    LET style_name == lower(OrEmpty(style_in))
        t == text_in
    IN  IF t = <<>> THEN <<"e", "m", "p", "t", "y">>  \* "empty"
        ELSE IF Contains(style_name, <<"h", "e", "a", "d", "i", "n", "g">>) \/ Contains(style_name, <<"t", "i", "t", "l", "e">>)  \* "heading", "title"
             THEN heading_role(style_name)
        ELSE IF is_caption(style_name, t) THEN <<"c", "a", "p", "t", "i", "o", "n">>  \* "caption"
        ELSE IF is_reference_style(style_name) THEN <<"r", "e", "f", "e", "r", "e", "n", "c", "e">>  \* "reference"
        ELSE IF is_reference_text(t) THEN <<"r", "e", "f", "e", "r", "e", "n", "c", "e">>  \* "reference"
        ELSE IF is_abstract(style_name, t) THEN <<"a", "b", "s", "t", "r", "a", "c", "t">>  \* "abstract"
        ELSE IF is_keywords(t) THEN <<"k", "e", "y", "w", "o", "r", "d", "s">>  \* "keywords"
        ELSE <<"b", "o", "d", "y">>  \* "body"

\* classify_paragraph returning title for every style that names "title"
classify_title_first(style_in, text_in) ==
    LET style_name == lower(OrEmpty(style_in))
        t == strip(text_in)
    IN  IF t = <<>> THEN <<"e", "m", "p", "t", "y">>  \* "empty"
        ELSE IF Contains(style_name, <<"t", "i", "t", "l", "e">>) THEN <<"t", "i", "t", "l", "e">>  \* "title", "title"
        ELSE IF Contains(style_name, <<"h", "e", "a", "d", "i", "n", "g">>) THEN heading_role(style_name)  \* "heading"
        ELSE IF is_caption(style_name, t) THEN <<"c", "a", "p", "t", "i", "o", "n">>  \* "caption"
        ELSE IF is_reference_style(style_name) THEN <<"r", "e", "f", "e", "r", "e", "n", "c", "e">>  \* "reference"
        ELSE IF is_reference_text(t) THEN <<"r", "e", "f", "e", "r", "e", "n", "c", "e">>  \* "reference"
        ELSE IF is_abstract(style_name, t) THEN <<"a", "b", "s", "t", "r", "a", "c", "t">>  \* "abstract"
        ELSE IF is_keywords(t) THEN <<"k", "e", "y", "w", "o", "r", "d", "s">>  \* "keywords"
        ELSE <<"b", "o", "d", "y">>  \* "body"

\* classify_paragraph with the reference rule ahead of the caption rule
classify_reference_first(style_in, text_in) ==
    LET style_name == lower(OrEmpty(style_in))
        t == strip(text_in)
    IN  IF t = <<>> THEN <<"e", "m", "p", "t", "y">>  \* "empty"
        ELSE IF Contains(style_name, <<"h", "e", "a", "d", "i", "n", "g">>) \/ Contains(style_name, <<"t", "i", "t", "l", "e">>)  \* "heading", "title"
             THEN heading_role(style_name)
        ELSE IF is_reference_style(style_name) THEN <<"r", "e", "f", "e", "r", "e", "n", "c", "e">>  \* "reference"
        ELSE IF is_reference_text(t) THEN <<"r", "e", "f", "e", "r", "e", "n", "c", "e">>  \* "reference"
        ELSE IF is_caption(style_name, t) THEN <<"c", "a", "p", "t", "i", "o", "n">>  \* "caption"
        ELSE IF is_abstract(style_name, t) THEN <<"a", "b", "s", "t", "r", "a", "c", "t">>  \* "abstract"
        ELSE IF is_keywords(t) THEN <<"k", "e", "y", "w", "o", "r", "d", "s">>  \* "keywords"
        ELSE <<"b", "o", "d", "y">>  \* "body"

classify_paragraph(style_in, text_in) ==
    LET style_name == lower(OrEmpty(style_in))
        t == strip(text_in)
    IN  IF t = <<>> THEN <<"e", "m", "p", "t", "y">>  \* "empty"
        ELSE IF Contains(style_name, <<"h", "e", "a", "d", "i", "n", "g">>) \/ Contains(style_name, <<"t", "i", "t", "l", "e">>)  \* "heading", "title"
             THEN heading_role(style_name)
        ELSE IF is_caption(style_name, t) THEN <<"c", "a", "p", "t", "i", "o", "n">>  \* "caption"
        ELSE IF is_reference_style(style_name) THEN <<"r", "e", "f", "e", "r", "e", "n", "c", "e">>  \* "reference"
        ELSE IF is_reference_text(t) THEN <<"r", "e", "f", "e", "r", "e", "n", "c", "e">>  \* "reference"
        ELSE IF is_abstract(style_name, t) THEN <<"a", "b", "s", "t", "r", "a", "c", "t">>  \* "abstract"
        ELSE IF is_keywords(t) THEN <<"k", "e", "y", "w", "o", "r", "d", "s">>  \* "keywords"
        ELSE <<"b", "o", "d", "y">>  \* "body"

\* The values of a component's variables while another component is checked
IdleClassify == style = None /\ text = <<>> /\ role = Unset
IdlePaper == page_width = 0 /\ page_height = 0 /\ paper_size = Unset
IdleResolve ==
    /\ style_rules = <<>> /\ fmt_role = "" /\ defaults = <<>>
    /\ fmt = <<>> /\ fmt_again = <<>> /\ fmt_over = <<>>
IdleFormat == content = <<>> /\ doc = <<>>
IdleEscape == latex_text = <<>> /\ escaped = Unset /\ escaped_twice = Unset
IdleCitation == paragraphs = <<>> /\ citation_style = <<>>
IdlePara == para = <<>> /\ info = <<>>
IdleAnalyze == document = <<>> /\ next_para = 0 /\ classified = <<>> /\ formatting_summary = <<>>
IdleRun == run_fmt = <<>> /\ run_font = <<>>
IdlePage == layout = <<>> /\ section = <<>> /\ section_once = <<>>
IdleLatex == tex_content = <<>> /\ tex_rules = <<>> /\ is_chinese = FALSE /\ tex_lines = <<>> /\ tex_error = ""
IdleHeap == heap = <<>> /\ heap_before = <<>> /\ rules_at = <<>> /\ defaults_at = <<>> /\ fmt_refs = <<>>
IdleMarkdown == md_text = <<>> /\ md_sections = <<>>

\* Style names and texts of the paragraphs classified
StyleNames ==
    { None, <<"N", "o", "r", "m", "a", "l">>, <<"H", "e", "a", "d", "i", "n", "g", " ", "1">>, <<"H", "e", "a", "d", "i", "n", "g", " ", "2">>, <<"h", "e", "a", "d", "i", "n", "g", " ", "0", "2">>, <<"H", "e", "a", "d", "i", "n", "g", " ", "0">>,  \* "Normal", "Heading 1", "Heading 2", "heading 02", "Heading 0"
      <<"H", "e", "a", "d", "i", "n", "g", " ", "1", "0">>, <<"T", "O", "C", " ", "H", "e", "a", "d", "i", "n", "g">>, <<"T", "i", "t", "l", "e">>, <<"S", "u", "b", "t", "i", "t", "l", "e">>, <<"T", "i", "t", "l", "e", " ", "H", "e", "a", "d", "i", "n", "g", " ", "3">>,  \* "Heading 10", "TOC Heading", "Title", "Subtitle", "Title Heading 3"
      <<"H", "e", "a", "d", "i", "n", "g", "3", " ", "C", "h", "a", "r", "4">>, <<"C", "a", "p", "t", "i", "o", "n">>, <<"B", "i", "b", "l", "i", "o", "g", "r", "a", "p", "h", "y">>, <<"R", "e", "f", "e", "r", "e", "n", "c", "e", "s">>, <<"A", "b", "s", "t", "r", "a", "c", "t">>,  \* "Heading3 Char4", "Caption", "Bibliography", "References", "Abstract"
      <<"B", "o", "d", "y", " ", "T", "e", "x", "t", " ", "2">> }  \* "Body Text 2"
ParagraphTexts ==
    { <<>>, <<" ", " ">>, <<" ", "\t">>, <<"I", "n", "t", "r", "o", "d", "u", "c", "t", "i", "o", "n">>, <<" ", " ", "R", "e", "s", "u", "l", "t", "s", " ", " ">>,  \* "  ", " \t", "Introduction", "  Results  "
      <<"F", "i", "g", "u", "r", "e", " ", "1", " ", "O", "v", "e", "r", "v", "i", "e", "w">>, <<"f", "i", "g", ".", " ", "2">>, <<"T", "A", "B", "L", "E", "3">>, <<"F", "i", "g", "u", "r", "e", " ", "o", "u", "t">>, <<"U8868", " ", "1">>, <<"U56FE", "2">>,  \* "Figure 1 Overview", "fig. 2", "TABLE3", "Figure out", "\u8868 1", "\u56fe2"
      <<"[", "1", "]", " ">> \o Pad(27), <<"[", "1", "]", " ">> \o Pad(26), <<"1", "2", " ">> \o Pad(28), <<"[", "7", "]">> \o Pad(28),  \* "[1] ", "[1] ", "12 ", "[7]"
      <<"3", " ", "M", "e", "t", "h", "o", "d", "s">>, <<"A", "b", "s", "t", "r", "a", "c", "t", ":", " ", "t", "e", "x", "t">>, <<"A", "B", "S", "T", "R", "A", "C", "T">>, <<"U6458", "U8981">>, <<"K", "e", "y", "w", "o", "r", "d", "s", ":", " ", "a", ";", " ", "b">>,  \* "3 Methods", "Abstract: text", "ABSTRACT", "\u6458\u8981", "Keywords: a; b"
      <<" ", "k", "e", "y", "w", "o", "r", "d", "s">>, <<"U5173", "U952E", "U8BCD">>, <<"T", "a", "b", "l", "e", " ", "4", " ">> \o Pad(30) }  \* " keywords", "\u5173\u952e\u8bcd", "Table 4 "

InitClassify ==
    /\ pc = "start"
    /\ style \in StyleNames
    /\ text \in ParagraphTexts
    /\ role = Unset
    /\ IdlePaper /\ IdleResolve /\ IdleFormat /\ IdleEscape /\ IdleCitation /\ IdlePara /\ IdleAnalyze /\ IdleRun /\ IdlePage /\ IdleLatex /\ IdleHeap /\ IdleMarkdown

\* role = classify_paragraph(para)
Classify ==
    /\ pc = "start"
    /\ role' = classify_paragraph(style, text)
    /\ pc' = "done"
    /\ UNCHANGED <<style, text>>
    /\ UNCHANGED <<paperVars, resolveVars, formatVars, escapeVars, citationVars, paraVars, analyzeVars, runVars, pageVars, latexVars, heapVars, markdownVars>>

NextClassify == Classify
SpecClassify == InitClassify /\ [][NextClassify]_vars

\* ---- Claims on the Role Classifier ----
FixedRoles ==
    {<<"t", "i", "t", "l", "e">>, <<"a", "b", "s", "t", "r", "a", "c", "t">>, <<"k", "e", "y", "w", "o", "r", "d", "s">>, <<"c", "a", "p", "t", "i", "o", "n">>, <<"r", "e", "f", "e", "r", "e", "n", "c", "e">>, <<"b", "o", "d", "y">>, <<"e", "m", "p", "t", "y">>}  \* "title", "abstract", "keywords", "caption", "reference", "body", "empty"

\* r is heading_<N> with N >= lo, N in decimal without leading zeros
IsHeadingRole(r, lo) ==
    /\ startswith(r, <<"h", "e", "a", "d", "i", "n", "g", "_">>)  \* "heading_"
    /\ Len(r) > 8
    /\ LET n == SubSeq(r, 9, Len(r))
       IN  /\ \A i \in 1..Len(n) : n[i] \in DigitChars
           /\ StrOf(IntOf(n)) = n
           /\ IntOf(n) >= lo

\* The number the first digit sequence of s writes, 1 when s has no digit
FirstLevel(s) ==
    IF \A i \in 1..Len(s) : s[i] \notin DigitChars THEN 1
    ELSE LET a == CHOOSE i \in 1..Len(s) :
                      s[i] \in DigitChars /\ \A j \in 1..(i - 1) : s[j] \notin DigitChars
             b == CHOOSE i \in a..Len(s) :
                      /\ \A j \in a..i : s[j] \in DigitChars
                      /\ (i = Len(s) \/ s[i + 1] \notin DigitChars)
         IN  IntOf(SubSeq(s, a, b))

\* C1 as stated: every classified paragraph gets a role of {title, heading_<N>
\* with N >= 1, abstract, keywords, caption, reference, body, empty}, and gets
\* `empty` exactly when its trimmed text is empty.
C1_RoleInEnumerationFromOne ==
    pc = "done" =>
        /\ role \in FixedRoles \/ IsHeadingRole(role, 1)
        /\ role = <<"e", "m", "p", "t", "y">> <=> strip(text) = <<>>  \* "empty"

\* C1 (amended): every (style name, text) pair, the style name absent or not,
\* gets exactly one role of {title, heading_<N> with N >= 0, abstract, keywords,
\* caption, reference, body, empty}, and gets `empty` exactly when its trimmed
\* text is empty.
C1_RoleInEnumeration ==
    pc = "done" =>
        /\ role \in FixedRoles \/ IsHeadingRole(role, 0)
        /\ role = <<"e", "m", "p", "t", "y">> <=> strip(text) = <<>>  \* "empty"

C1_Witness ==
    pc = "done" /\ strip(text) # <<>> /\ lower(OrEmpty(style)) = <<"h", "e", "a", "d", "i", "n", "g", " ", "0">>  \* "heading 0"
    /\ role = <<"h", "e", "a", "d", "i", "n", "g", "_", "0">>  \* "heading_0"

\* C2: a non-empty paragraph whose lower-cased style name contains "heading" or
\* "title" is `title` when the name contains "title" and not "heading", and
\* otherwise heading_<L>, L the first digit sequence of the name, 1 without one.
C2_HeadingOrTitle ==
    LET sn == lower(OrEmpty(style))
    IN  ( /\ pc = "done"
          /\ strip(text) # <<>>
          /\ Contains(sn, <<"h", "e", "a", "d", "i", "n", "g">>) \/ Contains(sn, <<"t", "i", "t", "l", "e">>) ) =>  \* "heading", "title"
            IF Contains(sn, <<"t", "i", "t", "l", "e">>) /\ ~Contains(sn, <<"h", "e", "a", "d", "i", "n", "g">>)  \* "title", "heading"
            THEN role = <<"t", "i", "t", "l", "e">>  \* "title"
            ELSE role = <<"h", "e", "a", "d", "i", "n", "g", "_">> \o StrOf(FirstLevel(sn))  \* "heading_"

C2_Witness ==
    pc = "done" /\ style = <<"T", "i", "t", "l", "e", " ", "H", "e", "a", "d", "i", "n", "g", " ", "3">> /\ strip(text) # <<>>  \* "Title Heading 3"
    /\ role = <<"h", "e", "a", "d", "i", "n", "g", "_", "3">>  \* "heading_3"

\* C3: the rules apply in the order empty, heading/title style, caption,
\* reference, abstract, keywords, body and the first that matches decides; the
\* reference text pattern counts only on a trimmed text longer than 30
\* characters; a "references" style with a text starting "Abstract" is
\* `reference`.
C3_FirstMatchWins ==
    LET sn == lower(OrEmpty(style))
        t == strip(text)
        empty == t = <<>>
        heading == Contains(sn, <<"h", "e", "a", "d", "i", "n", "g">>) \/ Contains(sn, <<"t", "i", "t", "l", "e">>)  \* "heading", "title"
        caption == startswith(sn, <<"c", "a", "p", "t", "i", "o", "n">>) \/ match_caption(t)  \* "caption"
        refstyle == sn = <<"b", "i", "b", "l", "i", "o", "g", "r", "a", "p", "h", "y">> \/ sn = <<"r", "e", "f", "e", "r", "e", "n", "c", "e", "s">>  \* "bibliography", "references"
        reference == refstyle \/ (match_reference(t) /\ Len(t) > 30)
        abstract == \/ Contains(sn, <<"a", "b", "s", "t", "r", "a", "c", "t">>)  \* "abstract"
                    \/ startswith(lower(t), <<"a", "b", "s", "t", "r", "a", "c", "t">>)  \* "abstract"
                    \/ startswith(t, <<"U6458", "U8981">>)  \* "\u6458\u8981"
        keywords == startswith(lower(t), <<"k", "e", "y", "w", "o", "r", "d", "s">>) \/ startswith(t, <<"U5173", "U952E", "U8BCD">>)  \* "keywords", "\u5173\u952e\u8bcd"
    IN  pc = "done" =>
        /\ empty => role = <<"e", "m", "p", "t", "y">>  \* "empty"
        /\ ~empty /\ heading => role = <<"t", "i", "t", "l", "e">> \/ IsHeadingRole(role, 0)  \* "title"
        /\ ~empty /\ ~heading /\ caption => role = <<"c", "a", "p", "t", "i", "o", "n">>  \* "caption"
        /\ ~empty /\ ~heading /\ ~caption /\ reference => role = <<"r", "e", "f", "e", "r", "e", "n", "c", "e">>  \* "reference"
        /\ ~empty /\ ~heading /\ ~caption /\ ~reference /\ abstract
             => role = <<"a", "b", "s", "t", "r", "a", "c", "t">>  \* "abstract"
        /\ ~empty /\ ~heading /\ ~caption /\ ~reference /\ ~abstract /\ keywords
             => role = <<"k", "e", "y", "w", "o", "r", "d", "s">>  \* "keywords"
        /\ ~empty /\ ~heading /\ ~caption /\ ~reference /\ ~abstract /\ ~keywords
             => role = <<"b", "o", "d", "y">>  \* "body"
        /\ role = <<"r", "e", "f", "e", "r", "e", "n", "c", "e">> /\ ~refstyle => Len(t) > 30  \* "reference"
        /\ sn = <<"r", "e", "f", "e", "r", "e", "n", "c", "e", "s">> /\ startswith(t, <<"A", "b", "s", "t", "r", "a", "c", "t">>) => role = <<"r", "e", "f", "e", "r", "e", "n", "c", "e">>  \* "references", "Abstract", "reference"

C3_Witness ==
    /\ pc = "done"
    /\ startswith(lower(OrEmpty(style)), <<"c", "a", "p", "t", "i", "o", "n">>)  \* "caption"
    /\ match_reference(strip(text)) /\ Len(strip(text)) > 30
    /\ role = <<"c", "a", "p", "t", "i", "o", "n">>  \* "caption"

(***************************************************************************)
(* Page layout: analyze_docx.emu_to_cm, analyze_page_layout                *)
(***************************************************************************)
\* A length python-docx reports as None
NoLength == -1

Abs(x) == IF x < 0 THEN -x ELSE x

\* round(emu / 360000, 2), in hundredths of a centimetre
emu_to_cm(emu) ==
    IF emu = NoLength THEN NoLength ELSE (emu + 1800) \div 3600

\* The paper size with a tolerance that includes its end points
paper_size_inclusive(page_width_cm, page_height_cm) ==
    LET w == IF page_width_cm = NoLength THEN 0 ELSE page_width_cm
        h == IF page_height_cm = NoLength THEN 0 ELSE page_height_cm
    IN  IF Abs(w - 2100) <= 50 /\ Abs(h - 2970) <= 50 THEN <<"A", "4">>  \* "A4"
        ELSE IF Abs(w - 2159) <= 50 /\ Abs(h - 2794) <= 50 THEN <<"L", "e", "t", "t", "e", "r">>  \* "Letter"
        ELSE <<"c", "u", "s", "t", "o", "m">>  \* "custom"

\* Lines 81-88: sec_info["paper_size"] from the two lengths in hundredths of cm
paper_size_of(page_width_cm, page_height_cm) ==
    LET w == IF page_width_cm = NoLength THEN 0 ELSE page_width_cm
        h == IF page_height_cm = NoLength THEN 0 ELSE page_height_cm
    IN  IF Abs(w - 2100) < 50 /\ Abs(h - 2970) < 50 THEN <<"A", "4">>  \* "A4"
        ELSE IF Abs(w - 2159) < 50 /\ Abs(h - 2794) < 50 THEN <<"L", "e", "t", "t", "e", "r">>  \* "Letter"
        ELSE <<"c", "u", "s", "t", "o", "m">>  \* "custom"

\* Lengths around the two paper sizes and their tolerance ends, in hundredths
\* of a centimetre, each taken as EMU at and beside the exact multiple
PaperSpan == 1
Near(c) == (c - PaperSpan)..(c + PaperSpan)
WidthsCm == Near(2050) \cup Near(2100) \cup Near(2109) \cup Near(2150)
            \cup Near(2159) \cup Near(2209) \cup {3000}
HeightsCm == Near(2744) \cup Near(2794) \cup Near(2844) \cup Near(2920)
             \cup Near(2970) \cup Near(3020) \cup {3000}
EmuOffsets == {-1000, 0, 1000}
PageWidths == {NoLength} \cup {3600 * c + o : c \in WidthsCm, o \in EmuOffsets}
PageHeights == {NoLength} \cup {3600 * c + o : c \in HeightsCm, o \in EmuOffsets}

InitPaper ==
    /\ pc = "start"
    /\ page_width \in PageWidths
    /\ page_height \in PageHeights
    /\ paper_size = Unset
    /\ IdleClassify /\ IdleResolve /\ IdleFormat /\ IdleEscape /\ IdleCitation /\ IdlePara /\ IdleAnalyze /\ IdleRun /\ IdlePage /\ IdleLatex /\ IdleHeap /\ IdleMarkdown

\* One iteration of analyze_page_layout's loop over doc.sections
AnalyzePageLayout ==
    /\ pc = "start"
    /\ paper_size' = paper_size_of(emu_to_cm(page_width), emu_to_cm(page_height))
    /\ pc' = "done"
    /\ UNCHANGED <<page_width, page_height>>
    /\ UNCHANGED <<classifyVars, resolveVars, formatVars, escapeVars, citationVars, paraVars, analyzeVars, runVars, pageVars, latexVars, heapVars, markdownVars>>

NextPaper == AnalyzePageLayout
SpecPaper == InitPaper /\ [][NextPaper]_vars

\* The size a tolerance of 0.5cm gives, its end points counted (strict = FALSE)
\* or not (strict = TRUE), for lengths in hundredths of a centimetre
SizeWithin(w, h, strict) ==
    LET close(x, c) == IF strict THEN Abs(x - c) < 50 ELSE Abs(x - c) <= 50
    IN  IF close(w, 2100) /\ close(h, 2970) THEN <<"A", "4">>  \* "A4"
        ELSE IF close(w, 2159) /\ close(h, 2794) THEN <<"L", "e", "t", "t", "e", "r">>  \* "Letter"
        ELSE <<"c", "u", "s", "t", "o", "m">>  \* "custom"

\* The recorded length: round(emu / 360000, 2) in hundredths, 0 for None
RecordedCm(emu) == IF emu = NoLength THEN 0 ELSE emu_to_cm(emu)

\* C4 as stated: A4 when width is within 0.5cm of 21.0 and height within 0.5cm
\* of 29.7, else Letter when within 0.5cm of 21.59 and 27.94, else custom
\* (within: at most 0.5cm away).
C4_PaperSizeWithinInclusive ==
    pc = "done" =>
        paper_size = SizeWithin(RecordedCm(page_width), RecordedCm(page_height), FALSE)

\* C4 (amended): A4 when width is less than 0.5cm from 21.0 and height less than
\* 0.5cm from 29.7, else Letter when less than 0.5cm from 21.59 and 27.94, else
\* custom; 21.0x29.7 is A4, 21.59x27.94 is Letter, 30x30 is custom.
C4_PaperSize ==
    pc = "done" =>
        LET w == RecordedCm(page_width)
            h == RecordedCm(page_height)
        IN  /\ paper_size = SizeWithin(w, h, TRUE)
            /\ w = 2100 /\ h = 2970 => paper_size = <<"A", "4">>  \* "A4"
            /\ w = 2159 /\ h = 2794 => paper_size = <<"L", "e", "t", "t", "e", "r">>  \* "Letter"
            /\ w = 3000 /\ h = 3000 => paper_size = <<"c", "u", "s", "t", "o", "m">>  \* "custom"

C4_Witness ==
    /\ pc = "done"
    /\ RecordedCm(page_width) = 2150 /\ RecordedCm(page_height) = 2970
    /\ paper_size = <<"c", "u", "s", "t", "o", "m">>  \* "custom"

(***************************************************************************)
(* Role-Format Resolver: format_docx.get_role_format, build_default_formats*)
(* A dict is a function on its keys; a JSON value is None or a sequence of *)
(* atoms (a scalar has one atom, a list one atom per item).                *)
(***************************************************************************)
EmptyDict == [k \in {} |-> None]

\* dict.get(key): None for a missing key
Get(d, k) == IF k \in DOMAIN d THEN d[k] ELSE None

\* Python truth of a JSON value: None, False, 0 and the empty list are false
Truthy(v) == v \notin {None, <<>>, <<"False">>, <<"0">>}

\* Lines 258-260: the fields get_role_format copies from the extracted rule
FormatKeys ==
    { "font_names", "font_sizes_pt", "bold", "italic", "alignment",
      "line_spacing", "line_spacing_rule", "first_line_indent_cm",
      "space_before_pt", "space_after_pt" }

build_default_formats ==
    [ title |->
        [ font_names |-> <<"Times New Roman">>, font_sizes_pt |-> <<"16">>,
          bold |-> <<"True">>, alignment |-> <<"center">>,
          space_after_pt |-> <<"12">> ],
      authors |->
        [ font_names |-> <<"Times New Roman">>, font_sizes_pt |-> <<"12">>,
          alignment |-> <<"center">>, space_after_pt |-> <<"6">> ],
      affiliations |->
        [ font_names |-> <<"Times New Roman">>, font_sizes_pt |-> <<"10">>,
          italic |-> <<"True">>, alignment |-> <<"center">>,
          space_after_pt |-> <<"12">> ],
      abstract_label |->
        [ font_names |-> <<"Times New Roman">>, font_sizes_pt |-> <<"12">>,
          bold |-> <<"True">>, alignment |-> <<"left">> ],
      abstract |->
        [ font_names |-> <<"Times New Roman">>, font_sizes_pt |-> <<"10">>,
          alignment |-> <<"justify">>, first_line_indent_cm |-> <<"0">>,
          space_after_pt |-> <<"12">> ],
      keywords |->
        [ font_names |-> <<"Times New Roman">>, font_sizes_pt |-> <<"10">>,
          alignment |-> <<"left">>, space_after_pt |-> <<"12">> ],
      heading_1 |->
        [ font_names |-> <<"Times New Roman">>, font_sizes_pt |-> <<"14">>,
          bold |-> <<"True">>, alignment |-> <<"left">>,
          space_before_pt |-> <<"18">>, space_after_pt |-> <<"12">> ],
      heading_2 |->
        [ font_names |-> <<"Times New Roman">>, font_sizes_pt |-> <<"12">>,
          bold |-> <<"True">>, alignment |-> <<"left">>,
          space_before_pt |-> <<"12">>, space_after_pt |-> <<"6">> ],
      heading_3 |->
        [ font_names |-> <<"Times New Roman">>, font_sizes_pt |-> <<"12">>,
          bold |-> <<"False">>, italic |-> <<"True">>, alignment |-> <<"left">>,
          space_before_pt |-> <<"6">>, space_after_pt |-> <<"6">> ],
      body |->
        [ font_names |-> <<"Times New Roman">>, font_sizes_pt |-> <<"12">>,
          alignment |-> <<"justify">>, line_spacing |-> <<"1.5">>,
          first_line_indent_cm |-> <<"0.75">>, space_after_pt |-> <<"0">> ],
      caption |->
        [ font_names |-> <<"Times New Roman">>, font_sizes_pt |-> <<"10">>,
          alignment |-> <<"center">>, bold |-> <<"False">>,
          space_before_pt |-> <<"6">>, space_after_pt |-> <<"6">> ],
      reference |->
        [ font_names |-> <<"Times New Roman">>, font_sizes_pt |-> <<"10">>,
          alignment |-> <<"justify">>, first_line_indent_cm |-> <<"0">>,
          left_indent_cm |-> <<"0">>, space_after_pt |-> <<"3">> ] ]

\* defaults.get(role): a role without defaults gives None, which get_role_format
\* treats as it treats {} (both are false in `if defaults`)
default_for(role_in) ==
    IF role_in \in DOMAIN build_default_formats
    THEN build_default_formats[role_in] ELSE EmptyDict

\* get_role_format copying an extracted value only when it is true in Python
get_role_format_truthy(rules, role_in, defaults_in) ==
    LET base == IF DOMAIN defaults_in # {} THEN defaults_in ELSE EmptyDict
        para_fmt == IF "paragraph_formatting" \in DOMAIN rules
                    THEN rules["paragraph_formatting"] ELSE EmptyDict
    IN  IF role_in \in DOMAIN para_fmt
        THEN LET role_data == para_fmt[role_in]
                 taken == {k \in FormatKeys : Truthy(Get(role_data, k))}
             IN  [k \in DOMAIN base \cup taken |->
                     IF k \in taken THEN role_data[k] ELSE base[k]]
        ELSE base

\* get_role_format adding the extracted items to the default's instead of
\* replacing them
get_role_format_extend(rules, role_in, defaults_in) ==
    LET base == IF DOMAIN defaults_in # {} THEN defaults_in ELSE EmptyDict
        para_fmt == IF "paragraph_formatting" \in DOMAIN rules
                    THEN rules["paragraph_formatting"] ELSE EmptyDict
    IN  IF role_in \in DOMAIN para_fmt
        THEN LET role_data == para_fmt[role_in]
                 taken == {k \in FormatKeys : Get(role_data, k) # None}
             IN  [k \in DOMAIN base \cup taken |->
                     IF k \in taken
                     THEN (IF k \in DOMAIN base THEN base[k] ELSE <<>>) \o role_data[k]
                     ELSE base[k]]
        ELSE base

get_role_format(rules, role_in, defaults_in) ==
    LET base == IF DOMAIN defaults_in # {} THEN defaults_in ELSE EmptyDict
        para_fmt == IF "paragraph_formatting" \in DOMAIN rules
                    THEN rules["paragraph_formatting"] ELSE EmptyDict
    IN  IF role_in \in DOMAIN para_fmt
        THEN LET role_data == para_fmt[role_in]
                 taken == {k \in FormatKeys : Get(role_data, k) # None}
             IN  [k \in DOMAIN base \cup taken |->
                     IF k \in taken THEN role_data[k] ELSE base[k]]
        ELSE base

\* The roles resolved: those with a default record, and one without
ResolvedRoles == DOMAIN build_default_formats \cup {"heading_4"}

\* Extracted rules: each varied field is absent, null, or one of two values (a
\* False or 0 among them); "count" and "sample_text" are always there, as the
\* extractor writes them
VariedKeys == {"font_names", "bold", "space_after_pt", "left_indent_cm"}
FieldChoices == {"absent", "null", "low", "high"}
FieldValue(k, c) ==
    IF c = "null" THEN None
    ELSE IF k = "font_names" THEN (IF c = "low" THEN <<"SimSun">> ELSE <<"Arial", "SimSun">>)
    ELSE IF k = "bold" THEN (IF c = "low" THEN <<"False">> ELSE <<"True">>)
    ELSE (IF c = "low" THEN <<"0">> ELSE <<"24">>)
RoleData(choice) ==
    [k \in {v \in VariedKeys : choice[v] # "absent"} \cup {"count", "sample_text"} |->
        IF k = "count" THEN <<"3">>
        ELSE IF k = "sample_text" THEN <<"Introduction">>
        ELSE FieldValue(k, choice[k])]
ExtractedRules == {RoleData(c) : c \in [VariedKeys -> FieldChoices]}

\* Style-Rule Models: without paragraph_formatting, with an empty one, with a
\* rule for the role resolved, and with a rule for another role only
StyleRulesFor(r) ==
    {EmptyDict, [paragraph_formatting |-> EmptyDict]}
    \cup {[paragraph_formatting |-> (r :> rd)] : rd \in ExtractedRules}
    \cup {[paragraph_formatting |->
              ((IF r = "body" THEN "caption" ELSE "body") :>
                  RoleData([k \in VariedKeys |-> "high"]))]}

InitResolve ==
    /\ pc = "start"
    /\ fmt_role \in ResolvedRoles
    /\ style_rules \in StyleRulesFor(fmt_role)
    /\ defaults = default_for(fmt_role)
    /\ fmt = <<>> /\ fmt_again = <<>> /\ fmt_over = <<>>
    /\ IdleClassify /\ IdlePaper /\ IdleFormat /\ IdleEscape /\ IdleCitation /\ IdlePara /\ IdleAnalyze /\ IdleRun /\ IdlePage /\ IdleLatex /\ IdleHeap /\ IdleMarkdown

\* fmt = get_role_format(style_rules, role, defaults.get(role))
Resolve ==
    /\ pc = "start"
    /\ fmt' = get_role_format(style_rules, fmt_role, defaults)
    /\ pc' = "resolved"
    /\ UNCHANGED <<style_rules, fmt_role, defaults, fmt_again, fmt_over>>
    /\ UNCHANGED <<classifyVars, paperVars, formatVars, escapeVars, citationVars, paraVars, analyzeVars, runVars, pageVars, latexVars, heapVars, markdownVars>>

\* The same call once more, as each backend call site repeats it
ResolveAgain ==
    /\ pc = "resolved"
    /\ fmt_again' = get_role_format(style_rules, fmt_role, defaults)
    /\ pc' = "repeated"
    /\ UNCHANGED <<style_rules, fmt_role, defaults, fmt, fmt_over>>
    /\ UNCHANGED <<classifyVars, paperVars, formatVars, escapeVars, citationVars, paraVars, analyzeVars, runVars, pageVars, latexVars, heapVars, markdownVars>>

\* The call with the record resolved before as the default record
ResolveOver ==
    /\ pc = "repeated"
    /\ fmt_over' = get_role_format(style_rules, fmt_role, fmt)
    /\ pc' = "done"
    /\ UNCHANGED <<style_rules, fmt_role, defaults, fmt, fmt_again>>
    /\ UNCHANGED <<classifyVars, paperVars, formatVars, escapeVars, citationVars, paraVars, analyzeVars, runVars, pageVars, latexVars, heapVars, markdownVars>>

NextResolve == Resolve \/ ResolveAgain \/ ResolveOver
SpecResolve == InitResolve /\ [][NextResolve]_vars

\* ---- Claims on the Role-Format Resolver ----
\* The extracted rule of the role resolved, {} when the model has none
ExtractedRule ==
    IF "paragraph_formatting" \in DOMAIN style_rules
       /\ fmt_role \in DOMAIN style_rules["paragraph_formatting"]
    THEN style_rules["paragraph_formatting"][fmt_role]
    ELSE EmptyDict

AllKeys == FormatKeys \cup {"left_indent_cm", "count", "sample_text"}

\* C5: the resolved record is the hardcoded default of the role with each field
\* of the fixed list replaced by the extracted value exactly when that value is
\* present and not null (False and 0 replace too); every other field, in the
\* list or not, is as in the default (absent where the default has none).
C5_DefaultsOverlaid ==
    pc # "start" =>
        LET hard == default_for(fmt_role)
        IN  /\ DOMAIN fmt \subseteq AllKeys
            /\ \A k \in AllKeys :
                 IF k \in FormatKeys /\ k \in DOMAIN ExtractedRule
                    /\ ExtractedRule[k] # None
                 THEN k \in DOMAIN fmt /\ fmt[k] = ExtractedRule[k]
                 ELSE /\ k \in DOMAIN fmt <=> k \in DOMAIN hard
                      /\ k \in DOMAIN hard => fmt[k] = hard[k]

C5_Witness ==
    /\ pc # "start" /\ fmt_role = "title"
    /\ Get(ExtractedRule, "bold") = <<"False">> /\ fmt["bold"] = <<"False">>
    /\ "space_after_pt" \in DOMAIN ExtractedRule
    /\ ExtractedRule["space_after_pt"] = None /\ fmt["space_after_pt"] = <<"12">>
    /\ "font_names" \notin DOMAIN ExtractedRule
    /\ fmt["font_names"] = <<"Times New Roman">>

\* C6: resolving a role a second time with the same role, defaults and model
\* gives the same record, and resolving with the resolved record as the default
\* and the same model gives that record again.
C6_ResolveIdempotent ==
    pc = "done" => fmt_again = fmt /\ fmt_over = fmt

C6_Witness ==
    /\ pc = "done" /\ fmt_role = "title" /\ fmt # defaults
    /\ Get(ExtractedRule, "font_names") = <<"Arial", "SimSun">>
    /\ fmt_over["font_names"] = <<"Arial", "SimSun">>

(***************************************************************************)
(* Flowing-Document Backend: format_docx.add_section_content,              *)
(* format_document.  The document is the sequence of paragraphs added, each*)
(* with the place that added it (part), its text and its resolved format.  *)
(***************************************************************************)
\* content.get(key) is true: the key is there with a non-empty value
Has(d, k) == k \in DOMAIN d /\ d[k] # <<>>

\* A call of add_formatted_paragraph(doc, text, role_fmt)
add_formatted_paragraph(part, text_in, role_fmt) ==
    [part |-> part, text |-> text_in, fmt |-> role_fmt]

\* separator.join(items)
RECURSIVE join(_, _)
join(separator, items) ==
    IF Len(items) = 0 THEN <<>>
    ELSE IF Len(items) = 1 THEN items[1]
    ELSE items[1] \o separator \o join(separator, Tail(items))

\* f"heading_{level}"
HeadingRoles == <<"heading_1", "heading_2", "heading_3", "heading_4", "heading_5", "heading_6", "heading_7">>
heading_role_name(level) == HeadingRoles[level]

\* A subsection numbered by its own index alone
sub_prefix_flat(numbering_prefix, i) ==
    IF numbering_prefix # <<>> THEN StrOf(i) ELSE <<>>

\* Line 383: f"{numbering_prefix}.{i}" if numbering_prefix else ""
sub_prefix(numbering_prefix, i) ==
    IF numbering_prefix # <<>> THEN numbering_prefix \o <<".">> \o StrOf(i) ELSE <<>>

RECURSIVE add_section_content(_, _, _)
RECURSIVE add_subsections(_, _, _, _)

\* Lines 382-384: the loop over section_data["subsections"], from the i-th on
add_subsections(subsections, i, rules, numbering_prefix) ==
    IF i > Len(subsections) THEN <<>>
    ELSE add_section_content(subsections[i], rules, sub_prefix(numbering_prefix, i))
         \o add_subsections(subsections, i + 1, rules, numbering_prefix)

\* add_section_content descending into the subsections before it adds the
\* section's own body paragraphs
RECURSIVE add_section_content_subsections_first(_, _, _)
add_section_content_subsections_first(section_data, rules, numbering_prefix) ==
    LET heading_text ==
            IF numbering_prefix # <<>> /\ section_data.heading # <<>>
            THEN numbering_prefix \o <<" ">> \o section_data.heading
            ELSE section_data.heading
        role_name == heading_role_name(section_data.level)
        body_fmt == get_role_format(rules, "body", default_for("body"))
        NonBlank(para_text) == strip(para_text) # <<>>
        kept == SelectSeq(section_data.content, NonBlank)
    IN  <<add_formatted_paragraph("heading", heading_text,
              get_role_format(rules, role_name, default_for(role_name)))>>
        \o add_subsections(section_data.subsections, 1, rules, numbering_prefix)
        \o [j \in 1..Len(kept) |-> add_formatted_paragraph("body", kept[j], body_fmt)]

\* The paragraphs one call adds, its recursive calls included
add_section_content(section_data, rules, numbering_prefix) ==
    LET heading_text ==
            IF numbering_prefix # <<>> /\ section_data.heading # <<>>
            THEN numbering_prefix \o <<" ">> \o section_data.heading
            ELSE section_data.heading
        role_name == heading_role_name(section_data.level)
        body_fmt == get_role_format(rules, "body", default_for("body"))
        NonBlank(para_text) == strip(para_text) # <<>>
        kept == SelectSeq(section_data.content, NonBlank)
    IN  <<add_formatted_paragraph("heading", heading_text,
              get_role_format(rules, role_name, default_for(role_name)))>>
        \o [j \in 1..Len(kept) |-> add_formatted_paragraph("body", kept[j], body_fmt)]
        \o add_subsections(section_data.subsections, 1, rules, numbering_prefix)

\* Lines 425-427: the loop over content["sections"], from the i-th on
RECURSIVE add_sections(_, _, _)
add_sections(sections, i, rules) ==
    IF i > Len(sections) THEN <<>>
    ELSE add_section_content(sections[i], rules, StrOf(i))
         \o add_sections(sections, i + 1, rules)

\* The paragraphs format_document adds for a role, one per text
ParagraphsOf(part, texts, rules, role_name) ==
    [j \in 1..Len(texts) |->
        add_formatted_paragraph(part, texts[j],
            get_role_format(rules, role_name, build_default_formats[role_name]))]

\* The paragraphs of the document format_document saves
format_document(content_in, rules) ==
    (IF Has(content_in, "title")
     THEN ParagraphsOf("title", <<content_in["title"]>>, rules, "title") ELSE <<>>)
    \o (IF Has(content_in, "authors")
        THEN ParagraphsOf("authors", <<join(<<",", " ">>, content_in["authors"])>>, rules, "authors")  \* ", "
        ELSE <<>>)
    \o (IF Has(content_in, "affiliations")
        THEN ParagraphsOf("affiliation", content_in["affiliations"], rules, "affiliations")
        ELSE <<>>)
    \o (IF Has(content_in, "abstract")
        THEN ParagraphsOf("abstract_label", <<<<"A", "b", "s", "t", "r", "a", "c", "t">>>>, rules, "abstract_label")  \* "Abstract"
             \o ParagraphsOf("abstract", <<content_in["abstract"]>>, rules, "abstract")
        ELSE <<>>)
    \o (IF Has(content_in, "keywords")
        THEN ParagraphsOf("keywords",
                 <<<<"K", "e", "y", "w", "o", "r", "d", "s", ":", " ">> \o join(<<";", " ">>, content_in["keywords"])>>, rules, "keywords")  \* "Keywords: ", "; "
        ELSE <<>>)
    \o (IF "sections" \in DOMAIN content_in
        THEN add_sections(content_in["sections"], 1, rules) ELSE <<>>)
    \o (IF Has(content_in, "acknowledgments")
        THEN ParagraphsOf("ack_heading", <<<<"A", "c", "k", "n", "o", "w", "l", "e", "d", "g", "m", "e", "n", "t", "s">>>>, rules, "heading_1")  \* "Acknowledgments"
             \o ParagraphsOf("ack_body", <<content_in["acknowledgments"]>>, rules, "body")
        ELSE <<>>)
    \o (IF Has(content_in, "references")
        THEN ParagraphsOf("ref_heading", <<<<"R", "e", "f", "e", "r", "e", "n", "c", "e", "s">>>>, rules, "heading_1")  \* "References"
             \o ParagraphsOf("reference", content_in["references"], rules, "reference")
        ELSE <<>>)

\* Section forests of at most MaxNodes sections: every shape, each section with
\* or without a heading text, with or without content (a blank paragraph and a
\* real one), its level the nesting depth
MaxNodes == 4
SectionHeadings == {<<>>, <<"H">>}  \* "H"
SectionContents == {<<>>, <<<<" ">>, <<"p">>>>}  \* " ", "p"
RECURSIVE Forests(_, _)
Forests(n, depth) ==
    IF n = 0 THEN {<<>>}
    ELSE {<<>>} \cup UNION {
        { <<[heading |-> h, level |-> depth, content |-> c, subsections |-> sub]>> \o rest :
            h \in SectionHeadings, c \in SectionContents,
            sub \in Forests(k - 1, depth + 1), rest \in Forests(n - k, depth) } :
        k \in 1..n }

\* The rest of the Content Tree: nothing, or every optional block
ContentFrames ==
    { EmptyDict,
      [ title |-> <<"T">>, authors |-> <<<<"A">>, <<"B">>>>, affiliations |-> <<<<"U">>>>,  \* "T", "A", "B", "U"
        abstract |-> <<"a">>, keywords |-> <<<<"k">>, <<"w">>>>,  \* "a", "k", "w"
        acknowledgments |-> <<"t">>, references |-> <<<<"[", "1", "]", " ", "r">>, <<"q">>>> ] }  \* "t", "[1] r", "q"

\* The Style-Rule Model the document is formatted with
SampleStyleRules ==
    [ paragraph_formatting |->
        ( "heading_1" :> RoleData([k \in VariedKeys |-> IF k = "bold" THEN "low" ELSE "null"])
          @@ "body" :> RoleData([k \in VariedKeys |-> IF k = "font_names" THEN "high" ELSE "absent"]) ) ]

InitFormat ==
    /\ pc = "start"
    /\ \E frame \in ContentFrames, sections \in Forests(MaxNodes, 1) :
          content = ("sections" :> sections) @@ frame
    /\ doc = <<>>
    /\ IdleClassify /\ IdlePaper /\ IdleEscape /\ IdleCitation /\ IdlePara /\ IdleAnalyze /\ IdleRun /\ IdlePage /\ IdleLatex /\ IdleHeap /\ IdleMarkdown
    /\ style_rules = SampleStyleRules /\ fmt_role = "" /\ defaults = <<>>
    /\ fmt = <<>> /\ fmt_again = <<>> /\ fmt_over = <<>>

\* format_document(content, style_rules, output_path)
FormatDocument ==
    /\ pc = "start"
    /\ doc' = format_document(content, style_rules)
    /\ pc' = "done"
    /\ UNCHANGED <<content, classifyVars, paperVars, resolveVars, escapeVars, citationVars, paraVars, analyzeVars, runVars, pageVars, latexVars, heapVars, markdownVars>>

NextFormat == FormatDocument
SpecFormat == InitFormat /\ [][NextFormat]_vars

\* ---- Claims on the Flowing-Document Backend ----
\* The sections of a forest in depth-first pre-order, each as its path of
\* 1-based child indices from the top level
RECURSIVE PreOrder(_, _, _)
PreOrder(forest, i, above) ==
    IF i > Len(forest) THEN <<>>
    ELSE <<Append(above, i)>>
         \o PreOrder(forest[i].subsections, 1, Append(above, i))
         \o PreOrder(forest, i + 1, above)

RECURSIVE SectionAt(_, _)
SectionAt(forest, path) ==
    IF Len(path) = 1 THEN forest[path[1]]
    ELSE SectionAt(forest[path[1]].subsections, Tail(path))

\* The dotted number i1.i2. ... .ik of a path
Dotted(path) == join(<<".">>, [j \in 1..Len(path) |-> StrOf(path[j])])

IsHeadingParagraph(p) == p.part = "heading"
HeadingParagraphs == SelectSeq(doc, IsHeadingParagraph)
SectionPaths == PreOrder(content["sections"], 1, <<>>)

\* C7 as stated: the heading of every section is prefixed with the dotted
\* number of its path.
C7_EveryHeadingNumbered ==
    pc = "done" =>
        /\ Len(HeadingParagraphs) = Len(SectionPaths)
        /\ \A j \in 1..Len(SectionPaths) :
             HeadingParagraphs[j].text =
                 Dotted(SectionPaths[j]) \o <<" ">>
                 \o SectionAt(content["sections"], SectionPaths[j]).heading

\* C7 (amended): the heading paragraph of the section reached by child indices
\* i1, ..., ik is "i1.i2. ... .ik", a space and the heading text when the
\* section has a non-empty heading text, and is empty and unnumbered when it
\* has none; first children under top-level section 2 get 2, 2.1 and 2.1.1.
C7_HeadingNumbered ==
    pc = "done" =>
        /\ Len(HeadingParagraphs) = Len(SectionPaths)
        /\ \A j \in 1..Len(SectionPaths) :
             LET heading == SectionAt(content["sections"], SectionPaths[j]).heading
             IN  HeadingParagraphs[j].text =
                     IF heading = <<>> THEN <<>>
                     ELSE Dotted(SectionPaths[j]) \o <<" ">> \o heading

C7_Witness ==
    /\ pc = "done"
    /\ \E j \in 1..(Len(HeadingParagraphs) - 2) :
          /\ SectionPaths[j] = <<2>> /\ HeadingParagraphs[j].text = <<"2", " ", "H">>  \* "2 H"
          /\ SectionPaths[j + 1] = <<2, 1>> /\ HeadingParagraphs[j + 1].text = <<"2", ".", "1", " ", "H">>  \* "2.1 H"
          /\ SectionPaths[j + 2] = <<2, 1, 1>> /\ HeadingParagraphs[j + 2].text = <<"2", ".", "1", ".", "1", " ", "H">>  \* "2.1.1 H"

(***************************************************************************)
(* Typesetting Backend: generate_latex.escape_latex                        *)
(***************************************************************************)
\* The replacement table with ~ and ^ ahead of the braces
special_braces_last ==
    << <<"&", <<"\\", "&">>>>, <<"%", <<"\\", "%">>>>, <<"$", <<"\\", "$">>>>, <<"#", <<"\\", "#">>>>,  \* "\&", "\%", "\$", "\#"
       <<"_", <<"\\", "_">>>>, <<"~", <<"\\", "t", "e", "x", "t", "a", "s", "c", "i", "i", "t", "i", "l", "d", "e", "{", "}">>>>,  \* "\_", "\textasciitilde{}"
       <<"^", <<"\\", "t", "e", "x", "t", "a", "s", "c", "i", "i", "c", "i", "r", "c", "u", "m", "{", "}">>>>, <<"{", <<"\\", "{">>>>, <<"}", <<"\\", "}">>>> >>  \* "\textasciicircum{}", "\{", "\}"

\* Lines 107-117: the replacement table, in the order the dict is iterated
special ==
    << <<"&", <<"\\", "&">>>>, <<"%", <<"\\", "%">>>>, <<"$", <<"\\", "$">>>>, <<"#", <<"\\", "#">>>>,  \* "\&", "\%", "\$", "\#"
       <<"_", <<"\\", "_">>>>, <<"{", <<"\\", "{">>>>, <<"}", <<"\\", "}">>>>,  \* "\_", "\{", "\}"
       <<"~", <<"\\", "t", "e", "x", "t", "a", "s", "c", "i", "i", "t", "i", "l", "d", "e", "{", "}">>>>, <<"^", <<"\\", "t", "e", "x", "t", "a", "s", "c", "i", "i", "c", "i", "r", "c", "u", "m", "{", "}">>>> >>  \* "\textasciitilde{}", "\textasciicircum{}"

\* text.replace(char, replacement) for a one-character char
RECURSIVE replace(_, _, _)
replace(s, char, replacement) ==
    IF Len(s) = 0 THEN <<>>
    ELSE (IF Head(s) = char THEN replacement ELSE <<Head(s)>>)
         \o replace(Tail(s), char, replacement)

\* Lines 119-120: the loop over special.items(), from the k-th item on
RECURSIVE replace_each(_, _)
replace_each(s, k) ==
    IF k > Len(special) THEN s
    ELSE replace_each(replace(s, special[k][1], special[k][2]), k + 1)

escape_latex(text_in) ==
    IF text_in = None \/ text_in = <<>> THEN <<>> ELSE replace_each(text_in, 1)

\* Texts escaped: every text of at most MaxTextLen characters over the nine
\* special characters, the backslash and a letter; None; and "50% & $5_ok"
MaxTextLen == 3
EscapeAlphabet == {"&", "%", "$", "#", "_", "{", "}", "~", "^", "\\", "a"}
RECURSIVE TextsUpTo(_)
TextsUpTo(n) ==
    IF n = 0 THEN {<<>>}
    ELSE TextsUpTo(n - 1)
         \cup {Append(s, c) : s \in {u \in TextsUpTo(n - 1) : Len(u) = n - 1},
                              c \in EscapeAlphabet}
SampleText == <<"5", "0", "%", " ", "&", " ", "$", "5", "_", "o", "k">>  \* "50% & $5_ok"

InitEscape ==
    /\ pc = "start"
    /\ latex_text \in TextsUpTo(MaxTextLen) \cup {None, SampleText}
    /\ escaped = Unset /\ escaped_twice = Unset
    /\ IdleClassify /\ IdlePaper /\ IdleResolve /\ IdleFormat /\ IdleCitation /\ IdlePara /\ IdleAnalyze /\ IdleRun /\ IdlePage /\ IdleLatex /\ IdleHeap /\ IdleMarkdown

\* escaped = escape_latex(text)
Escape ==
    /\ pc = "start"
    /\ escaped' = escape_latex(latex_text)
    /\ pc' = "escaped"
    /\ UNCHANGED <<latex_text, escaped_twice>>
    /\ UNCHANGED <<classifyVars, paperVars, resolveVars, formatVars, citationVars, paraVars, analyzeVars, runVars, pageVars, latexVars, heapVars, markdownVars>>

\* The escaped text passed through escape_latex once more
EscapeAgain ==
    /\ pc = "escaped"
    /\ escaped_twice' = escape_latex(escaped)
    /\ pc' = "done"
    /\ UNCHANGED <<latex_text, escaped>>
    /\ UNCHANGED <<classifyVars, paperVars, resolveVars, formatVars, citationVars, paraVars, analyzeVars, runVars, pageVars, latexVars, heapVars, markdownVars>>

NextEscape == Escape \/ EscapeAgain
SpecEscape == InitEscape /\ [][NextEscape]_vars

\* ---- Claims on escaping ----
\* One left-to-right pass that replaces each of the nine characters by its
\* replacement and copies every other character
Substituted(c) ==
    IF \E k \in 1..Len(special) : special[k][1] = c
    THEN special[CHOOSE k \in 1..Len(special) : special[k][1] = c][2]
    ELSE <<c>>
RECURSIVE SinglePass(_)
SinglePass(s) ==
    IF Len(s) = 0 THEN <<>> ELSE Substituted(Head(s)) \o SinglePass(Tail(s))

\* C8: one call of escape_latex equals one simultaneous left-to-right
\* substitution of the nine characters: nothing a replacement inserts is
\* replaced again, and every other character is copied.
C8_EscapeIsSinglePass ==
    pc # "start" => escaped = SinglePass(OrEmpty(latex_text))

C8_Witness ==
    /\ pc # "start"
    /\ latex_text = <<"~", "{", "\\">>  \* "~{\"
    /\ escaped = <<"\\", "t", "e", "x", "t", "a", "s", "c", "i", "i", "t", "i", "l", "d", "e", "{", "}", "\\", "{", "\\">>  \* "\textasciitilde{}\{\"

\* Every %, &, $ and _ of s comes right after a backslash
AllPreceded(s) ==
    \A i \in 1..Len(s) :
        s[i] \in {"%", "&", "$", "_"} => i > 1 /\ s[i - 1] = "\\"

\* C9: in the escaped "50% & $5_ok" every %, &, $ and _ follows a backslash,
\* and escaping an escaped text again changes nothing.
C9_EscapeTwiceIsNoOp ==
    pc = "done" =>
        /\ latex_text = SampleText => AllPreceded(escaped)
        /\ escaped_twice = escaped

\* The part of C9 the code keeps: the escaped sample has every %, &, $ and _
\* after a backslash; its second pass doubles the backslashes
C9_SampleEscaped ==
    pc = "done" /\ latex_text = SampleText =>
        /\ escaped = <<"5", "0", "\\", "%", " ", "\\", "&", " ", "\\", "$", "5", "\\", "_", "o", "k">>  \* "50\% \& \$5\_ok"
        /\ escaped_twice = <<"5", "0", "\\", "\\", "%", " ", "\\", "\\", "&", " ", "\\", "\\", "$", "5", "\\", "\\", "_", "o", "k">>  \* "50\\% \\& \\$5\\_ok"

(***************************************************************************)
(* Citation Style Detector: analyze_docx.detect_citation_style             *)
(* Each pattern is matched as re matches it at a position: the end of the  *)
(* match when the text matches from position i, 0 when it does not.        *)
(***************************************************************************)
UpperSet == {UpperChars[i] : i \in 1..Len(UpperChars)}
LowerSet == {LowerChars[i] : i \in 1..Len(LowerChars)}

At(s, i) == IF i >= 1 /\ i <= Len(s) THEN s[i] ELSE ""

\* \d{4} from position i: i + 4 when four digits are there, 0 otherwise
FourDigits(s, i) ==
    IF \A j \in i..(i + 3) : At(s, j) \in DigitChars THEN i + 4 ELSE 0

\* r"\[\d+\]"
match_numeric_bracket(s, i) ==
    LET d == RunEnd(s, i + 1, DigitChars)
    IN  IF At(s, i) = "[" /\ d >= i + 1 /\ At(s, d + 1) = "]" THEN d + 1 ELSE 0

\* r"\^\[\d+\]"
match_numeric_superscript(s, i) ==
    IF At(s, i) = "^" THEN match_numeric_bracket(s, i + 1) ELSE 0

\* [A-Z][a-z]+ from position i: the end of the name, 0 without one
match_name(s, i) ==
    LET e == RunEnd(s, i + 1, LowerSet)
    IN  IF At(s, i) \in UpperSet /\ e >= i + 1 THEN e ELSE 0

\* r"\([A-Z][a-z]+(?:\s(?:and|&)\s[A-Z][a-z]+)?,?\s*\d{4}\)"
match_author_year_paren(s, i) ==
    LET first == IF At(s, i) = "(" THEN match_name(s, i + 1) ELSE 0
        \* the position after the connective of the optional group, 0 without it
        conn == IF At(s, first + 1) \in Whitespace
                THEN IF At(s, first + 2) = "&" THEN first + 3
                     ELSE IF SubSeq(s, first + 2, first + 4) = <<"a", "n", "d">> THEN first + 5  \* "and"
                     ELSE 0
                ELSE 0
        second == IF conn > 0 /\ At(s, conn) \in Whitespace
                  THEN match_name(s, conn + 1) ELSE 0
        names == IF second > 0 THEN second ELSE first
        comma == IF At(s, names + 1) = "," THEN names + 1 ELSE names
        year == FourDigits(s, RunEnd(s, comma + 1, Whitespace) + 1)
    IN  IF first > 0 /\ year > 0 /\ At(s, year) = ")" THEN year ELSE 0

\* r"[\uff08(]\s*[\u4e00-\u9fff]+\s*[,\uff0c]\s*\d{4}\s*[)\uff09]"
match_author_year_cn(s, i) ==
    LET n0 == RunEnd(s, i + 1, Whitespace) + 1
        n1 == RunEnd(s, n0, CJKChars)
        c == RunEnd(s, n1 + 1, Whitespace) + 1
        year == FourDigits(s, RunEnd(s, c + 1, Whitespace) + 1)
        close == RunEnd(s, year, Whitespace) + 1
    IN  IF /\ At(s, i) \in {"(", "UFF08"} /\ n1 >= n0
           /\ At(s, c) \in {",", "UFF0C"} /\ year > 0
           /\ At(s, close) \in {")", "UFF09"}
        THEN close ELSE 0

\* The superscript family ahead of the bracket one
in_text_patterns_superscript_first ==
    <<"numeric_superscript", "numeric_bracket", "author_year_paren", "author_year_cn">>

\* Lines 259-264: the pattern families, in the order of in_text_patterns
in_text_patterns ==
    <<"numeric_bracket", "numeric_superscript", "author_year_paren", "author_year_cn">>

match_at(name, s, i) ==
    CASE name = "numeric_bracket" -> match_numeric_bracket(s, i)
      [] name = "numeric_superscript" -> match_numeric_superscript(s, i)
      [] name = "author_year_paren" -> match_author_year_paren(s, i)
      [] name = "author_year_cn" -> match_author_year_cn(s, i)

\* len(re.findall(pattern, text)): the matches found scanning from position i,
\* each search resuming after the match before it
RECURSIVE findall_count(_, _, _)
findall_count(name, s, i) ==
    IF i > Len(s) THEN 0
    ELSE IF match_at(name, s, i) > 0
         THEN 1 + findall_count(name, s, match_at(name, s, i) + 1)
         ELSE findall_count(name, s, i + 1)

\* Lines 266-270: counts after the paragraphs from the k-th on are scanned
RECURSIVE count_paragraphs(_, _, _)
count_paragraphs(paras, k, counts) ==
    IF k > Len(paras) THEN counts
    ELSE count_paragraphs(paras, k + 1,
             [name \in DOMAIN counts |-> counts[name] + findall_count(name, paras[k], 1)])

\* max(counts) without key=counts.get: the greatest family name
detected_by_name(counts) ==
    IF \E name \in DOMAIN counts : counts[name] > 0
    THEN "numeric_superscript" ELSE "unknown"

\* The last family, in the order of the dict, whose count no other exceeds
detected_last(counts) ==
    IF \E name \in DOMAIN counts : counts[name] > 0
    THEN in_text_patterns[
             Max({k \in 1..Len(in_text_patterns) :
                    \A j \in 1..Len(in_text_patterns) :
                        counts[in_text_patterns[j]] <= counts[in_text_patterns[k]]})]
    ELSE "unknown"

\* Line 272: max(counts, key=counts.get) is the first family, in the order of
\* the dict, whose count no other exceeds
detected(counts) ==
    IF \E name \in DOMAIN counts : counts[name] > 0
    THEN in_text_patterns[
             Min({k \in 1..Len(in_text_patterns) :
                    \A j \in 1..Len(in_text_patterns) :
                        counts[in_text_patterns[j]] <= counts[in_text_patterns[k]]})]
    ELSE "unknown"

\* Lines 274-279
style_map ==
    [ numeric_bracket |-> <<"n", "u", "m", "e", "r", "i", "c", " ", "(", "e", ".", "g", ".", ",", " ", "G", "B", "/", "T", " ", "7", "7", "1", "4", " ", "n", "u", "m", "e", "r", "i", "c", ",", " ", "I", "E", "E", "E", ",", " ", "V", "a", "n", "c", "o", "u", "v", "e", "r", ")">>,  \* "numeric (e.g., GB/T 7714 numeric, IEEE, Vancouver)"
      numeric_superscript |-> <<"n", "u", "m", "e", "r", "i", "c", " ", "s", "u", "p", "e", "r", "s", "c", "r", "i", "p", "t", " ", "(", "e", ".", "g", ".", ",", " ", "V", "a", "n", "c", "o", "u", "v", "e", "r", ")">>,  \* "numeric superscript (e.g., Vancouver)"
      author_year_paren |-> <<"a", "u", "t", "h", "o", "r", "-", "y", "e", "a", "r", " ", "(", "e", ".", "g", ".", ",", " ", "A", "P", "A", ",", " ", "C", "h", "i", "c", "a", "g", "o", " ", "a", "u", "t", "h", "o", "r", "-", "d", "a", "t", "e", ")">>,  \* "author-year (e.g., APA, Chicago author-date)"
      author_year_cn |-> <<"a", "u", "t", "h", "o", "r", "-", "y", "e", "a", "r", " ", "C", "h", "i", "n", "e", "s", "e", " ", "(", "e", ".", "g", ".", ",", " ", "G", "B", "/", "T", " ", "7", "7", "1", "4", " ", "a", "u", "t", "h", "o", "r", "-", "y", "e", "a", "r", ")">> ]  \* "author-year Chinese (e.g., GB/T 7714 author-year)"

detect_citation_style(paras) ==
    LET counts == count_paragraphs(paras, 1,
                      [name \in {in_text_patterns[k] : k \in 1..Len(in_text_patterns)} |-> 0])
    IN  [ detected_style |->
              IF detected(counts) \in DOMAIN style_map
              THEN style_map[detected(counts)] ELSE <<"u", "n", "k", "n", "o", "w", "n">>,  \* "unknown"
          citation_counts |-> counts ]

\* Paragraph sequences scanned: at most MaxParagraphs texts
MaxParagraphs == 3
CitationTexts ==
    { <<"[", "1", "]">>, <<"[", "2", "]">>, <<"[", "3", "]">>, <<"a", "s", " ", "s", "h", "o", "w", "n", "^", "[", "4", "]", " ", "a", "n", "d", " ", "[", "1", "2", "]", "[", "1", "3", "]">>, <<"(", "S", "m", "i", "t", "h", ",", " ", "2", "0", "2", "0", ")">>,  \* "[1]", "[2]", "[3]", "as shown^[4] and [12][13]", "(Smith, 2020)"
      <<"(", "S", "m", "i", "t", "h", " ", "a", "n", "d", " ", "J", "o", "n", "e", "s", " ", "2", "0", "1", "9", ")", ",", " ", "(", "L", "e", "e", " ", "&", " ", "K", "i", "m", ",", " ", " ", "2", "0", "1", "8", ")">>, <<"UFF08", "U5F20", "U4E09", "UFF0C", "2", "0", "2", "0", "UFF09", "(", " ", "U5B8B", "U4F53", " ", ",", " ", "2", "0", "2", "1", " ", ")">>,  \* "(Smith and Jones 2019), (Lee & Kim,  2018)", "\uff08\u5f20\u4e09\uff0c2020\uff09( \u5b8b\u4f53 , 2021 )"
      <<"n", "o", " ", "[", "a", "]", " ", "(", "S", "m", "i", "t", "h", ",", " ", "2", "0", "2", "0", "1", ")", " ", "(", "s", "m", "i", "t", "h", ",", " ", "2", "0", "2", "0", ")", " ", "[", "]", " ", "^", "[", "x", "]">>, <<>> }  \* "no [a] (Smith, 20201) (smith, 2020) [] ^[x]", ""
RECURSIVE SeqsUpTo(_, _)
SeqsUpTo(S, n) ==
    IF n = 0 THEN {<<>>}
    ELSE SeqsUpTo(S, n - 1)
         \cup {Append(s, x) : s \in {u \in SeqsUpTo(S, n - 1) : Len(u) = n - 1}, x \in S}

InitCitation ==
    /\ pc = "start"
    /\ paragraphs \in SeqsUpTo(CitationTexts, MaxParagraphs)
    /\ citation_style = <<>>
    /\ IdleClassify /\ IdlePaper /\ IdleResolve /\ IdleFormat /\ IdleEscape /\ IdlePara /\ IdleAnalyze /\ IdleRun /\ IdlePage /\ IdleLatex /\ IdleHeap /\ IdleMarkdown

\* "citation_style": detect_citation_style(doc.paragraphs)
DetectCitationStyle ==
    /\ pc = "start"
    /\ citation_style' = detect_citation_style(paragraphs)
    /\ pc' = "done"
    /\ UNCHANGED <<paragraphs, classifyVars, paperVars, resolveVars, formatVars, escapeVars, paraVars, analyzeVars, runVars, pageVars, latexVars, heapVars, markdownVars>>

NextCitation == DetectCitationStyle
SpecCitation == InitCitation /\ [][NextCitation]_vars

\* ---- Claims on the Citation Style Detector ----
Families == {in_text_patterns[k] : k \in 1..Len(in_text_patterns)}

\* The matches of a family in the paragraphs, each as <<paragraph, position>>:
\* no match of a family starts inside another, so this is what findall counts
MatchesOf(name) ==
    UNION { {<<k, i>> : i \in {j \in 1..Len(paragraphs[k]) :
                                   match_at(name, paragraphs[k], j) > 0}} :
            k \in 1..Len(paragraphs) }

\* C10: the counts are the total matches of each family over all paragraphs;
\* the family whose count is strictly the highest gives the label; all counts 0
\* give `unknown`; "[1]", "[2]", "[3]" give the numeric-bracket label with
\* count 3 and every other count 0.
C10_HighestCountWins ==
    pc = "done" =>
        LET counts == citation_style.citation_counts
        IN  /\ DOMAIN counts = Families
            /\ \A f \in Families : counts[f] = Cardinality(MatchesOf(f))
            /\ \A f \in Families :
                 (\A g \in Families \ {f} : counts[g] < counts[f])
                    => citation_style.detected_style = style_map[f]
            /\ (\A f \in Families : counts[f] = 0)
                 => citation_style.detected_style = <<"u", "n", "k", "n", "o", "w", "n">>  \* "unknown"
            /\ paragraphs = <<<<"[", "1", "]">>, <<"[", "2", "]">>, <<"[", "3", "]">>>> =>  \* "[1]", "[2]", "[3]"
                 /\ citation_style.detected_style = style_map["numeric_bracket"]
                 /\ counts = [f \in Families |-> IF f = "numeric_bracket" THEN 3 ELSE 0]

C10_Witness ==
    /\ pc = "done"
    /\ paragraphs = <<<<"[", "1", "]">>, <<"[", "2", "]">>, <<"[", "3", "]">>>>  \* "[1]", "[2]", "[3]"
    /\ citation_style.citation_counts["numeric_bracket"] = 3
    /\ citation_style.detected_style
         = <<"n", "u", "m", "e", "r", "i", "c", " ", "(", "e", ".", "g", ".", ",", " ", "G", "B", "/", "T", " ", "7", "7", "1", "4", " ", "n", "u", "m", "e", "r", "i", "c", ",", " ", "I", "E", "E", "E", ",", " ", "V", "a", "n", "c", "o", "u", "v", "e", "r", ")">>  \* "numeric (e.g., GB/T 7714 numeric, IEEE, Vancouver)"

(***************************************************************************)
(* Paragraph format extraction: analyze_docx.analyze_paragraph_format.     *)
(* A paragraph is a record of what python-docx reports for it: lengths in  *)
(* EMU (NoLength when None), flags as the JSON values True, False or None, *)
(* names as strings ("" when None), runs in document order; line_spacing   *)
(* is in EMU under the rules EXACTLY and AT_LEAST and in hundredths of a   *)
(* line otherwise.  A number of the returned record is the atom Python     *)
(* prints for it ("10.5", "0.74").                                         *)
(***************************************************************************)
\* repr of a float with one decimal place, from its value in tenths
Decimal1(tenths) == ToString(tenths \div 10) \o "." \o ToString(tenths % 10)

\* repr of a float rounded to two places, from its value in hundredths
Decimal2(hundredths) ==
    ToString(hundredths \div 100) \o "." \o
        (IF hundredths % 10 = 0 THEN ToString((hundredths % 100) \div 10)
         ELSE IF hundredths % 100 < 10 THEN "0" \o ToString(hundredths % 100)
         ELSE ToString(hundredths % 100))

\* round(emu / 12700, 1) as a JSON number
emu_to_pt(emu) ==
    IF emu = NoLength THEN None ELSE <<Decimal1((emu + 635) \div 1270)>>

\* emu_to_cm(emu) as a JSON number
emu_to_cm_value(emu) ==
    IF emu = NoLength THEN None ELSE <<Decimal2(emu_to_cm(emu))>>

\* `f(x) if x else None`: a length that is None or 0 gives None
IfLength(emu, value) == IF emu = NoLength \/ emu = 0 THEN None ELSE value

\* get_alignment_str: the five names, "left" for any other enum member
AlignmentNames == {"left", "center", "right", "justify", "distribute"}
get_alignment_str(alignment) ==
    IF alignment \in AlignmentNames THEN <<alignment>> ELSE <<"left">>

\* Lines 119-129: (line_spacing, line_spacing_rule) of the record
line_spacing_of(p) ==
    IF p.line_spacing = NoLength THEN [value |-> None, rule |-> None]
    ELSE IF p.line_spacing_rule # None
    THEN [value |-> IF p.line_spacing_rule \in {<<"EXACTLY">>, <<"AT_LEAST">>}
                    THEN <<Decimal1((p.line_spacing + 635) \div 1270) \o "pt">>
                    ELSE <<Decimal2(p.line_spacing)>>,
          rule |-> p.line_spacing_rule]
    ELSE [value |-> <<Decimal2(p.line_spacing)>>, rule |-> None]

\* list(dict.fromkeys(items)): the distinct items in order of first occurrence
RECURSIVE unique(_)
unique(items) ==
    IF items = <<>> THEN <<>>
    ELSE LET front == unique(SubSeq(items, 1, Len(items) - 1))
             last == items[Len(items)]
         IN  IF \E i \in 1..Len(front) : front[i] = last THEN front
             ELSE Append(front, last)

\* Lines 143-146: the number of runs whose flag is true
count_runs(runs, flag) == Cardinality({i \in 1..Len(runs) : Truthy(runs[i][flag])})

BoolValue(b) == IF b THEN <<"True">> ELSE <<"False">>

\* `count > total_runs * 0.5` with the comparison turned around
majority_at_least_half(count, total_runs) == 2 * count >= total_runs

\* Line 153 / 154: count > total_runs * 0.5
majority(count, total_runs) == 2 * count > total_runs

\* text[:80]
text_preview(t) == IF t = None \/ t = <<>> THEN <<>> ELSE SubSeq(t, 1, Min({80, Len(t)}))

analyze_paragraph_format(p) ==
    LET Name(r) == r.name
        Size(r) == emu_to_pt(r.size)[1]
        HasName(r) == r.name # ""
        HasSize(r) == r.size # NoLength /\ r.size # 0
        named == SelectSeq(p.runs, HasName)
        sized == SelectSeq(p.runs, HasSize)
        fonts == [i \in 1..Len(named) |-> Name(named[i])]
        sizes == [i \in 1..Len(sized) |-> Size(sized[i])]
        total_runs == Len(p.runs)
        spacing == line_spacing_of(p)
        base == [k \in {"text_preview", "style_name", "alignment", "line_spacing",
                        "line_spacing_rule", "space_before_pt", "space_after_pt",
                        "first_line_indent_cm", "left_indent_cm"} |->
                    CASE k = "text_preview" -> text_preview(p.text)
                      [] k = "style_name" -> p.style
                      [] k = "alignment" ->
                            IF p.alignment = "" THEN None ELSE get_alignment_str(p.alignment)
                      [] k = "line_spacing" -> spacing.value
                      [] k = "line_spacing_rule" -> spacing.rule
                      [] k = "space_before_pt" -> IfLength(p.space_before, emu_to_pt(p.space_before))
                      [] k = "space_after_pt" -> IfLength(p.space_after, emu_to_pt(p.space_after))
                      [] k = "first_line_indent_cm" ->
                            IfLength(p.first_line_indent, emu_to_cm_value(p.first_line_indent))
                      [] k = "left_indent_cm" ->
                            IfLength(p.left_indent, emu_to_cm_value(p.left_indent))]
        with_fonts == IF fonts # <<>> THEN ("font_names" :> unique(fonts)) @@ base ELSE base
        with_sizes == IF sizes # <<>> THEN ("font_sizes_pt" :> unique(sizes)) @@ with_fonts
                      ELSE with_fonts
    IN  IF total_runs > 0
        THEN ("bold" :> BoolValue(majority(count_runs(p.runs, "bold"), total_runs))) @@
             ("italic" :> BoolValue(majority(count_runs(p.runs, "italic"), total_runs))) @@
             with_sizes
        ELSE with_sizes

\* The runs a paragraph is made of
RunKinds ==
    { [name |-> "", size |-> NoLength, bold |-> None, italic |-> None],
      [name |-> "Arial", size |-> 152400, bold |-> <<"True">>, italic |-> <<"False">>],
      [name |-> "Arial", size |-> 133350, bold |-> <<"False">>, italic |-> <<"True">>],
      [name |-> "SimSun", size |-> 152400, bold |-> <<"True">>, italic |-> <<"True">>],
      [name |-> "", size |-> 0, bold |-> <<"False">>, italic |-> None],
      [name |-> "SimSun", size |-> NoLength, bold |-> None, italic |-> <<"True">>] }
MaxRuns == 4

\* What python-docx reports for the paragraph apart from its runs
ParagraphFrames ==
    { [text |-> <<"B", "o", "d", "y", " ", "t", "e", "x", "t">>, style |-> <<"N", "o", "r", "m", "a", "l">>, alignment |-> "",  \* "Body text", "Normal"
       line_spacing |-> NoLength, line_spacing_rule |-> None,
       space_before |-> NoLength, space_after |-> NoLength,
       first_line_indent |-> NoLength, left_indent |-> NoLength],
      [text |-> <<"1", " ", "I", "n", "t", "r", "o", "d", "u", "c", "t", "i", "o", "n">>, style |-> <<"H", "e", "a", "d", "i", "n", "g", " ", "1">>, alignment |-> "center",  \* "1 Introduction", "Heading 1"
       line_spacing |-> 150, line_spacing_rule |-> <<"MULTIPLE">>,
       space_before |-> 152400, space_after |-> 76200,
       first_line_indent |-> 0, left_indent |-> NoLength],
      [text |-> Pad(85), style |-> None, alignment |-> "both",
       line_spacing |-> 254000, line_spacing_rule |-> <<"EXACTLY">>,
       space_before |-> 0, space_after |-> 133350,
       first_line_indent |-> 266700, left_indent |-> 360000] }

WithRuns(frame, runs) ==
    [k \in DOMAIN frame \cup {"runs"} |-> IF k = "runs" THEN runs ELSE frame[k]]

InitPara ==
    /\ pc = "start"
    /\ para \in {WithRuns(f, r) : f \in ParagraphFrames, r \in SeqsUpTo(RunKinds, MaxRuns)}
    /\ info = <<>>
    /\ IdleClassify /\ IdlePaper /\ IdleResolve /\ IdleFormat /\ IdleEscape /\ IdleCitation /\ IdleAnalyze /\ IdleRun /\ IdlePage /\ IdleLatex /\ IdleHeap /\ IdleMarkdown

\* info = analyze_paragraph_format(para)
AnalyzeParagraphFormat ==
    /\ pc = "start"
    /\ info' = analyze_paragraph_format(para)
    /\ pc' = "done"
    /\ UNCHANGED para
    /\ UNCHANGED <<classifyVars, paperVars, resolveVars, formatVars, escapeVars, citationVars, analyzeVars, runVars, pageVars, latexVars, heapVars, markdownVars>>

NextPara == AnalyzeParagraphFormat
SpecPara == InitPara /\ [][NextPara]_vars

\* ---- Claims on the paragraph format ----
\* The runs of the analysed paragraph whose flag is the value True
BoldRuns == {i \in 1..Len(para.runs) : para.runs[i].bold = <<"True">>}
ItalicRuns == {i \in 1..Len(para.runs) : para.runs[i].italic = <<"True">>}

\* C11: a paragraph with at least one run gets bold (italic) true exactly
\* when strictly more than half of its runs are bold (italic): 2 of 3 gives
\* true, 1 of 3 and exactly half give false; a paragraph without runs gets
\* no bold and no italic value.
C11_BoldItalicMajority ==
    pc = "done" =>
        LET n == Len(para.runs)
        IN  /\ n = 0 => "bold" \notin DOMAIN info /\ "italic" \notin DOMAIN info
            /\ n > 0 =>
                /\ {"bold", "italic"} \subseteq DOMAIN info
                /\ info["bold"] = <<"True">> <=> 2 * Cardinality(BoldRuns) > n
                /\ info["bold"] = <<"False">> <=> 2 * Cardinality(BoldRuns) <= n
                /\ info["italic"] = <<"True">> <=> 2 * Cardinality(ItalicRuns) > n
                /\ info["italic"] = <<"False">> <=> 2 * Cardinality(ItalicRuns) <= n
            /\ n = 3 /\ Cardinality(BoldRuns) = 2 => info["bold"] = <<"True">>
            /\ n = 3 /\ Cardinality(BoldRuns) = 1 => info["bold"] = <<"False">>
            /\ n = 3 /\ Cardinality(ItalicRuns) = 2 => info["italic"] = <<"True">>
            /\ n = 3 /\ Cardinality(ItalicRuns) = 1 => info["italic"] = <<"False">>

\* Two of four runs are bold, and the paragraph is not
C11_Witness ==
    /\ pc = "done"
    /\ Len(para.runs) = 4
    /\ Cardinality(BoldRuns) = 2
    /\ Cardinality(ItalicRuns) = 3
    /\ info["bold"] = <<"False">>
    /\ info["italic"] = <<"True">>

(***************************************************************************)
(* Document analysis: analyze_docx.analyze_document, lines 291-321.        *)
(* A dict keyed by role is a function on the roles it holds.               *)
(***************************************************************************)
\* Line 307 taking the last record of the role
representative_last(paras) == paras[Len(paras)]

\* Line 307: rep = paras[0]
representative(paras) == paras[1]

\* Lines 308-321: the summary record of a role
summary_of(paras) ==
    LET rep == representative(paras)
    IN  [k \in {"count", "font_names", "font_sizes_pt", "bold", "italic", "alignment",
                "line_spacing", "line_spacing_rule", "first_line_indent_cm",
                "space_before_pt", "space_after_pt", "sample_text"} |->
            IF k = "count" THEN <<ToString(Len(paras))>>
            ELSE IF k = "sample_text" THEN Get(rep, "text_preview")
            ELSE Get(rep, k)]

\* Lines 293-299: one round of the first loop
classify_and_group(groups, p) ==
    LET r == classify_paragraph(p.style, p.text)
    IN  IF r = <<"e", "m", "p", "t", "y">> THEN groups  \* "empty"
        ELSE [k \in DOMAIN groups \cup {r} |->
                 (IF k \in DOMAIN groups THEN groups[k] ELSE <<>>)
                 \o (IF k = r THEN <<analyze_paragraph_format(p)>> ELSE <<>>)]

\* Lines 302-321: the second loop
summarise(groups) ==
    [r \in {k \in DOMAIN groups : groups[k] # <<>>} |-> summary_of(groups[r])]

\* The paragraphs documents are made of
Paragraph(style_name, t, alignment, space_before, runs) ==
    [text |-> t, style |-> style_name, alignment |-> alignment,
     line_spacing |-> NoLength, line_spacing_rule |-> None,
     space_before |-> space_before, space_after |-> NoLength,
     first_line_indent |-> NoLength, left_indent |-> NoLength, runs |-> runs]
PlainRun == [name |-> "", size |-> NoLength, bold |-> None, italic |-> None]
BoldRun == [name |-> "Arial", size |-> 152400, bold |-> <<"True">>, italic |-> <<"False">>]
SongRun == [name |-> "SimSun", size |-> 133350, bold |-> <<"False">>, italic |-> <<"True">>]
DocParagraphs ==
    { Paragraph(<<"N", "o", "r", "m", "a", "l">>, <<"F", "i", "r", "s", "t", " ", "b", "o", "d", "y">>, "", NoLength, <<PlainRun>>),  \* "Normal", "First body"
      Paragraph(<<"N", "o", "r", "m", "a", "l">>, <<"S", "e", "c", "o", "n", "d", " ", "b", "o", "d", "y">>, "justify", 76200, <<SongRun, SongRun>>),  \* "Normal", "Second body"
      Paragraph(<<"H", "e", "a", "d", "i", "n", "g", " ", "1">>, <<"1", " ", "I", "n", "t", "r", "o", "d", "u", "c", "t", "i", "o", "n">>, "center", 152400, <<BoldRun>>),  \* "Heading 1", "1 Introduction"
      Paragraph(<<"H", "e", "a", "d", "i", "n", "g", " ", "1">>, <<"2", " ", "M", "e", "t", "h", "o", "d", "s">>, "left", NoLength, <<>>),  \* "Heading 1", "2 Methods"
      Paragraph(None, <<" ", " ">>, "", NoLength, <<BoldRun>>),  \* "  "
      Paragraph(<<"H", "e", "a", "d", "i", "n", "g", " ", "2">>, <<>>, "center", NoLength, <<>>),  \* "Heading 2", ""
      Paragraph(<<"N", "o", "r", "m", "a", "l">>, <<"F", "i", "g", "u", "r", "e", " ", "1", " ", "O", "v", "e", "r", "v", "i", "e", "w">>, "center", NoLength, <<SongRun, BoldRun>>) }  \* "Normal", "Figure 1 Overview"
MaxDocLen == 3

InitAnalyze ==
    /\ pc = "classifying"
    /\ document \in SeqsUpTo(DocParagraphs, MaxDocLen)
    /\ next_para = 1
    /\ classified = EmptyDict
    /\ formatting_summary = <<>>
    /\ IdleClassify /\ IdlePaper /\ IdleResolve /\ IdleFormat /\ IdleEscape /\ IdleCitation /\ IdlePara /\ IdleRun /\ IdlePage /\ IdleLatex /\ IdleHeap /\ IdleMarkdown

\* Lines 293-299, one paragraph
ClassifyAndGroup ==
    /\ pc = "classifying"
    /\ next_para <= Len(document)
    /\ classified' = classify_and_group(classified, document[next_para])
    /\ next_para' = next_para + 1
    /\ UNCHANGED <<pc, document, formatting_summary>>
    /\ UNCHANGED <<classifyVars, paperVars, resolveVars, formatVars, escapeVars, citationVars, paraVars, runVars, pageVars, latexVars, heapVars, markdownVars>>

\* Lines 302-321, once the first loop has ended
Summarise ==
    /\ pc = "classifying"
    /\ next_para > Len(document)
    /\ formatting_summary' = summarise(classified)
    /\ pc' = "done"
    /\ UNCHANGED <<document, next_para, classified>>
    /\ UNCHANGED <<classifyVars, paperVars, resolveVars, formatVars, escapeVars, citationVars, paraVars, runVars, pageVars, latexVars, heapVars, markdownVars>>

NextAnalyze == ClassifyAndGroup \/ Summarise
SpecAnalyze == InitAnalyze /\ [][NextAnalyze]_vars

\* ---- Claims on the document analysis ----
RoleOf(i) == classify_paragraph(document[i].style, document[i].text)
WithRole(r) == {i \in 1..Len(document) : RoleOf(i) = r}
ObservedRoles == {RoleOf(i) : i \in 1..Len(document)} \ {<<"e", "m", "p", "t", "y">>}  \* "empty"
SummaryFields ==
    { "font_names", "font_sizes_pt", "bold", "italic", "alignment", "line_spacing",
      "line_spacing_rule", "first_line_indent_cm", "space_before_pt", "space_after_pt" }

\* C12: after analyze_document, paragraph_formatting has one record for each
\* role observed on a non-empty paragraph and no other key (never `empty`);
\* the formatting fields of a record are those of the first paragraph of the
\* role, and its count is the number of paragraphs of the role.
C12_FirstRepresentative ==
    pc = "done" =>
        /\ DOMAIN formatting_summary = ObservedRoles
        /\ <<"e", "m", "p", "t", "y">> \notin DOMAIN formatting_summary  \* "empty"
        /\ \A r \in ObservedRoles :
              LET first == analyze_paragraph_format(document[Min(WithRole(r))])
              IN  /\ \A k \in SummaryFields : formatting_summary[r][k] = Get(first, k)
                  /\ formatting_summary[r]["sample_text"] = first["text_preview"]
                  /\ formatting_summary[r]["count"] = <<ToString(Cardinality(WithRole(r)))>>

\* Two paragraphs of one role with different formats, an empty one between
C12_Witness ==
    /\ pc = "done"
    /\ Len(document) = 3
    /\ RoleOf(2) = <<"e", "m", "p", "t", "y">>  \* "empty"
    /\ RoleOf(1) # <<"e", "m", "p", "t", "y">>  \* "empty"
    /\ RoleOf(1) = RoleOf(3)
    /\ analyze_paragraph_format(document[1])["alignment"] # analyze_paragraph_format(document[3])["alignment"]
    /\ formatting_summary[RoleOf(1)]["count"] = <<"2">>

(***************************************************************************)
(* The order of the document: format_document on Content Trees in which    *)
(* every optional block is absent, empty or filled independently.          *)
(***************************************************************************)
MaxOrderNodes == 2
FilledBlocks ==
    [ title |-> <<"T">>, authors |-> <<<<"A">>, <<"B">>>>, affiliations |-> <<<<"U">>, <<"V">>>>,  \* "T", "A", "B", "U", "V"
      abstract |-> <<"a">>, keywords |-> <<<<"k">>, <<"w">>>>,  \* "a", "k", "w"
      acknowledgments |-> <<"t">>, references |-> <<<<"[", "2", "]", " ", "r">>, <<"[", "1", "]", " ", "q">>, <<"[", "2", "]", " ", "r">>>> ]  \* "t", "[2] r", "[1] q", "[2] r"

\* The Content Tree with the blocks of `filled`; a block left out is absent,
\* or there with an empty value when `empties` is set
ContentWith(filled, empties, sections) ==
    LET keys == IF empties THEN DOMAIN FilledBlocks ELSE filled
    IN  ("sections" :> sections) @@
        [k \in keys |-> IF k \in filled THEN FilledBlocks[k] ELSE <<>>]

InitOrder ==
    /\ pc = "start"
    /\ \E filled \in SUBSET DOMAIN FilledBlocks, empties \in BOOLEAN,
          sections \in Forests(MaxOrderNodes, 1) :
          content = ContentWith(filled, empties, sections)
    /\ doc = <<>>
    /\ IdleClassify /\ IdlePaper /\ IdleEscape /\ IdleCitation /\ IdlePara /\ IdleAnalyze /\ IdleRun /\ IdlePage /\ IdleLatex /\ IdleHeap /\ IdleMarkdown
    /\ style_rules = SampleStyleRules /\ fmt_role = "" /\ defaults = <<>>
    /\ fmt = <<>> /\ fmt_again = <<>> /\ fmt_over = <<>>

SpecOrder == InitOrder /\ [][NextFormat]_vars

\* ---- Claims on the order of the document ----
\* The texts a block contributes when its field is non-empty
Block(field, texts) == IF Has(content, field) THEN texts ELSE <<>>

\* Heading then non-blank body paragraphs of the sections, in pre-order
RECURSIVE SectionTexts(_, _)
SectionTexts(paths, j) ==
    IF j > Len(paths) THEN <<>>
    ELSE LET section_data == SectionAt(content["sections"], paths[j])
             NonBlank(t) == \E i \in 1..Len(t) : t[i] \notin Whitespace
             heading == IF section_data.heading = <<>> THEN <<>>
                        ELSE Dotted(paths[j]) \o <<" ">> \o section_data.heading
         IN  <<heading>> \o SelectSeq(section_data.content, NonBlank) \o SectionTexts(paths, j + 1)

TextsInOrder ==
    Block("title", <<content["title"]>>)
    \o Block("authors", <<join(<<",", " ">>, content["authors"])>>)  \* ", "
    \o Block("affiliations", content["affiliations"])
    \o Block("abstract", <<<<"A", "b", "s", "t", "r", "a", "c", "t">>, content["abstract"]>>)  \* "Abstract"
    \o Block("keywords", <<<<"K", "e", "y", "w", "o", "r", "d", "s", ":", " ">> \o join(<<";", " ">>, content["keywords"])>>)  \* "Keywords: ", "; "
    \o SectionTexts(SectionPaths, 1)
    \o Block("acknowledgments", <<<<"A", "c", "k", "n", "o", "w", "l", "e", "d", "g", "m", "e", "n", "t", "s">>, content["acknowledgments"]>>)  \* "Acknowledgments"
    \o Block("references", <<<<"R", "e", "f", "e", "r", "e", "n", "c", "e", "s">>>> \o content["references"])  \* "References"

\* C13: format_document emits title; authors joined with ", "; one paragraph
\* per affiliation; the "Abstract" label and the abstract; the "Keywords: "
\* line; each section in pre-order as heading, non-blank body paragraphs,
\* subsections; acknowledgments heading and body; references heading and one
\* paragraph per reference in input order; a block only when its field is
\* non-empty.
C13_DocumentOrder ==
    pc = "done" =>
        /\ Len(doc) = Len(TextsInOrder)
        /\ \A i \in 1..Len(doc) : doc[i].text = TextsInOrder[i]

\* Every block is there and a section has body paragraphs and a subsection
C13_Witness ==
    /\ pc = "done"
    /\ \A k \in DOMAIN FilledBlocks : Has(content, k)
    /\ Len(content["sections"]) = 1
    /\ content["sections"][1].content # <<>>
    /\ Len(content["sections"][1].subsections) = 1
    /\ Len(doc) = 17

(***************************************************************************)
(* Character formatting: format_docx.set_run_format, resolve_font_size.    *)
(* The font of a run is the record of its w:rFonts slots (ascii, hAnsi,    *)
(* eastAsia; "" when not set), its size in EMU and its flags.  Font names  *)
(* are Python strings, a list of names a sequence of them.                 *)
(***************************************************************************)
\* any("一" <= c <= "鿿" for c in s)
any_cjk(s) == \E i \in 1..Len(s) : s[i] \in CJKChars

\* The font of the run para.add_run(text) returns
NewRunFont ==
    [ascii |-> <<>>, hAnsi |-> <<>>, eastAsia |-> <<>>,
     size |-> NoLength, bold |-> None, italic |-> None, color |-> None]

\* CN_FONT_SIZE and float(): the sizes of the inputs, in tenths of a point
CN_FONT_SIZE == (<<"U5C0F", "U56DB">> :> 120) @@ (<<"U4E94", "U53F7">> :> 105)  \* "\u5c0f\u56db", "\u4e94\u53f7"
FloatTenths == (<<"1", "2">> :> 120) @@ (<<"1", "0", ".", "5">> :> 105) @@ (<<"9">> :> 90) @@ (<<"0">> :> 0)  \* "12", "10.5", "9", "0"

\* str.replace("pt", "")
RECURSIVE remove_pt(_)
remove_pt(s) ==
    IF Len(s) < 2 THEN s
    ELSE IF s[1] = "p" /\ s[2] = "t" THEN remove_pt(SubSeq(s, 3, Len(s)))
    ELSE <<s[1]>> \o remove_pt(Tail(s))

\* resolve_font_size, in tenths of a point (NoLength for None); a size given
\* as a number is the text of the number
resolve_font_size(size_spec) ==
    IF size_spec = None THEN NoLength
    ELSE IF size_spec \in DOMAIN CN_FONT_SIZE THEN CN_FONT_SIZE[size_spec]
    ELSE LET stripped == strip(remove_pt(size_spec))
         IN  IF stripped \in DOMAIN FloatTenths THEN FloatTenths[stripped] ELSE NoLength

\* Line 143, font.name = font_name: python-docx's Font.name writes the name
\* to the w:ascii and w:hAnsi attributes of w:rFonts
set_font_name(font, font_name) == [font EXCEPT !.ascii = font_name, !.hAnsi = font_name]

\* x[0] if x else fallback
FirstOr(items, fallback) == IF items # None /\ items # <<>> THEN items[1] ELSE fallback

\* RGBColor.from_string: six hexadecimal digits, ValueError otherwise
HexChars == DigitChars \cup {"A", "B", "C", "D", "E", "F", "a", "b", "c", "d", "e", "f"}
is_rgb(s) == Len(s) = 6 /\ \A i \in 1..6 : s[i] \in HexChars

set_run_format(font, fmt_in) ==
    LET font_names == IF "font_names" \in DOMAIN fmt_in THEN fmt_in["font_names"] ELSE <<>>
        font_name == FirstOr(font_names, Get(fmt_in, "font_name"))
        named == IF font_name # None /\ font_name # <<>>
                 THEN LET f == set_font_name(font, font_name)
                      IN  IF any_cjk(font_name)
                          THEN [f EXCEPT !.eastAsia = font_name]
                          ELSE [f EXCEPT !.ascii = font_name, !.hAnsi = font_name]
                 ELSE font
        font_sizes == IF "font_sizes_pt" \in DOMAIN fmt_in THEN fmt_in["font_sizes_pt"] ELSE <<>>
        size == resolve_font_size(FirstOr(font_sizes, Get(fmt_in, "font_size_pt")))
        sized == IF size # NoLength /\ size # 0
                 THEN [named EXCEPT !.size = size * 1270] ELSE named
        bolded == IF Get(fmt_in, "bold") # None
                  THEN [sized EXCEPT !.bold = fmt_in["bold"]] ELSE sized
        slanted == IF Get(fmt_in, "italic") # None
                   THEN [bolded EXCEPT !.italic = fmt_in["italic"]] ELSE bolded
    IN  IF Get(fmt_in, "color") # None /\ Get(fmt_in, "color") # <<>> /\ is_rgb(fmt_in["color"])
        THEN [slanted EXCEPT !.color = fmt_in["color"]] ELSE slanted

\* The format records applied: each field absent or one of its values
FontNameLists ==
    { <<>>, <<<<"U5B8B", "U4F53">>>>, <<<<"T", "i", "m", "e", "s", " ", "N", "e", "w", " ", "R", "o", "m", "a", "n">>>>, <<<<"T", "i", "m", "e", "s", " ", "N", "e", "w", " ", "R", "o", "m", "a", "n">>, <<"U5B8B", "U4F53">>>>,  \* "\u5b8b\u4f53", "Times New Roman", "Times New Roman", "\u5b8b\u4f53"
      <<<<"U5B8B", "U4F53">>, <<"A", "r", "i", "a", "l">>>>, <<<<"M", "S", " ", "U30B4", "U30B7", "U30C3", "U30AF">>>>, <<<<"A", "d", "o", "b", "e", " ", "U5B8B", "U4F53", " ", "S", "t", "d">>>> }  \* "\u5b8b\u4f53", "Arial", "MS \u30b4\u30b7\u30c3\u30af", "Adobe \u5b8b\u4f53 Std"
RunFormats ==
    { [k \in keys |-> choice[k]] :
        keys \in SUBSET {"font_names", "font_name", "font_sizes_pt", "bold", "color"},
        choice \in [ font_names : FontNameLists,
                     font_name : {None, <<"A", "r", "i", "a", "l">>, <<"U9ED1", "U4F53">>},  \* "Arial", "\u9ed1\u4f53"
                     font_sizes_pt : {<<>>, <<<<"U5C0F", "U56DB">>>>, <<<<"1", "0", ".", "5">>, <<"1", "2">>>>, <<<<"1", "2", "p", "t">>>>, <<<<"l", "a", "r", "g", "e">>>>},  \* "\u5c0f\u56db", "10.5", "12", "12pt", "large"
                     bold : {None, <<"True">>, <<"False">>},
                     color : {<<"F", "F", "0", "0", "0", "0">>, <<"r", "e", "d">>} ] }  \* "FF0000", "red"

InitRun ==
    /\ pc = "start"
    /\ run_fmt \in RunFormats
    /\ run_font = NewRunFont
    /\ IdleClassify /\ IdlePaper /\ IdleResolve /\ IdleFormat /\ IdleEscape /\ IdleCitation /\ IdlePara /\ IdleAnalyze /\ IdlePage /\ IdleLatex /\ IdleHeap /\ IdleMarkdown

\* set_run_format(run, role_fmt)
SetRunFormat ==
    /\ pc = "start"
    /\ run_font' = set_run_format(run_font, run_fmt)
    /\ pc' = "done"
    /\ UNCHANGED run_fmt
    /\ UNCHANGED <<classifyVars, paperVars, resolveVars, formatVars, escapeVars, citationVars, paraVars, analyzeVars, pageVars, latexVars, heapVars, markdownVars>>

NextRun == SetRunFormat
SpecRun == InitRun /\ [][NextRun]_vars

\* ---- Claims on the font slots ----
\* The name set_run_format applies, <<>> when it applies none
AppliedName ==
    LET names == IF "font_names" \in DOMAIN run_fmt THEN run_fmt["font_names"] ELSE <<>>
        name == IF names # <<>> THEN names[1] ELSE Get(run_fmt, "font_name")
    IN  IF name = None THEN <<>> ELSE name

\* C14: a font name with a CJK Unified Ideograph is written to the East-Asian
\* slot only and a name without one to the Western (ascii/hAnsi) slot only:
\* after the call no CJK name is in the Western slot and no Latin name is in
\* the East-Asian slot.
C14_FontSlots ==
    pc = "done" /\ AppliedName # <<>> =>
        IF any_cjk(AppliedName)
        THEN /\ run_font.eastAsia = AppliedName
             /\ run_font.ascii = <<>> /\ run_font.hAnsi = <<>>
        ELSE /\ run_font.ascii = AppliedName /\ run_font.hAnsi = AppliedName
             /\ run_font.eastAsia = <<>>

\* The Latin half of C14: a name without an ideograph is in the Western slots
\* and the East-Asian slot is left alone
C14_LatinNameWesternOnly ==
    pc = "done" /\ AppliedName # <<>> /\ ~any_cjk(AppliedName) =>
        /\ run_font.ascii = AppliedName /\ run_font.hAnsi = AppliedName
        /\ run_font.eastAsia = <<>>

(***************************************************************************)
(* Page setup: format_docx.setup_page.  Centimetre values are in           *)
(* hundredths, lengths of the section in EMU.  The page layout is tagged   *)
(* with its JSON kind: null, a list of section records (items), or one     *)
(* record.                                                                 *)
(***************************************************************************)
\* docx.shared.Cm: int(cm * 360000), exact on the values of the model
Cm(hundredths) == hundredths * 3600

\* sec_info.get(key) is true: a number other than None and 0
HasNumber(d, k) == k \in DOMAIN d /\ d[k] # NoLength /\ d[k] # 0

\* sec_info.get(key) is not None
NotNone(d, k) == k \in DOMAIN d /\ d[k] # NoLength

\* Line 212 without the test: landscape always swaps
swap_always(w, h) == TRUE

\* Line 212: section.page_width < section.page_height
swap_needed(w, h) == w < h

\* Lines 202-213: page size and orientation
page_size(sec, sec_info) ==
    LET w == IF HasNumber(sec_info, "page_width_cm")
             THEN Cm(sec_info["page_width_cm"]) ELSE sec.page_width
        h == IF HasNumber(sec_info, "page_height_cm")
             THEN Cm(sec_info["page_height_cm"]) ELSE sec.page_height
        landscape == "orientation" \in DOMAIN sec_info /\ sec_info["orientation"] = "landscape"
        swap == landscape /\ swap_needed(w, h)
    IN  [sec EXCEPT !.page_width = IF swap THEN h ELSE w,
                    !.page_height = IF swap THEN w ELSE h,
                    !.orientation = IF landscape THEN "landscape" ELSE @]

\* Lines 215-230: margins and header/footer distances
page_margins(sec, sec_info) ==
    LET margins == IF "margins" \in DOMAIN sec_info THEN sec_info["margins"] ELSE EmptyDict
        Margin(k, old) == IF NotNone(margins, k) THEN Cm(margins[k]) ELSE old
        Distance(k, old) == IF HasNumber(sec_info, k) THEN Cm(sec_info[k]) ELSE old
    IN  [sec EXCEPT !.top_margin = Margin("top_cm", @),
                    !.bottom_margin = Margin("bottom_cm", @),
                    !.left_margin = Margin("left_cm", @),
                    !.right_margin = Margin("right_cm", @),
                    !.header_distance = Distance("header_distance_cm", @),
                    !.footer_distance = Distance("footer_distance_cm", @)]

\* Lines 232-246: header and footer text
page_texts(sec, sec_info) ==
    LET Text(k, old) == IF k \in DOMAIN sec_info /\ sec_info[k] # None /\ sec_info[k] # <<>>
                        THEN sec_info[k] ELSE old
    IN  [sec EXCEPT !.header_text = Text("header_text", @),
                    !.footer_text = Text("footer_text", @)]

setup_page(sec, layout_in) ==
    IF layout_in.kind = "null" \/ (layout_in.kind = "list" /\ layout_in.items = <<>>)
       \/ (layout_in.kind = "dict" /\ DOMAIN layout_in.record = {})
    THEN sec
    ELSE LET sec_info == IF layout_in.kind = "list" THEN layout_in.items[1] ELSE layout_in.record
         IN  page_texts(page_margins(page_size(sec, sec_info), sec_info), sec_info)

\* The section of the document Document() opens: python-docx's default
\* template (Letter, portrait), and sections a caller set up before
NewSection ==
    [page_width |-> 7772400, page_height |-> 10058400, orientation |-> "portrait",
     top_margin |-> 914400, bottom_margin |-> 914400,
     left_margin |-> 1143000, right_margin |-> 1143000,
     header_distance |-> 457200, footer_distance |-> 457200, gutter |-> 0,
     header_text |-> <<>>, footer_text |-> <<>>]
Sections ==
    { NewSection,
      [NewSection EXCEPT !.page_width = 10692000, !.page_height = 7560000,
                         !.orientation = "landscape"],
      [NewSection EXCEPT !.page_width = 7560000, !.page_height = 7560000] }

\* Section records of a page layout: each field absent, null or a value
Opt(k, values) == {EmptyDict} \cup {k :> v : v \in values}
SecInfos ==
    { w @@ h @@ o @@ m @@ t :
        w \in Opt("page_width_cm", {NoLength, 0, 2100, 2970}),
        h \in Opt("page_height_cm", {NoLength, 2970, 2100}),
        o \in Opt("orientation", {"portrait", "landscape"}),
        m \in Opt("margins", { [top_cm |-> 254, bottom_cm |-> 0],
                               [top_cm |-> 317, bottom_cm |-> 317, left_cm |-> NoLength,
                                right_cm |-> 254] }),
        t \in { EmptyDict,
                [header_text |-> <<"J", "o", "u", "r", "n", "a", "l">>, footer_distance_cm |-> 125,  \* "Journal"
                 header_distance_cm |-> 0] } }
PageLayouts ==
    { [kind |-> "null"], [kind |-> "list", items |-> <<>>],
      [kind |-> "dict", record |-> EmptyDict] }
    \cup { [kind |-> "list", items |-> <<s>>] : s \in SecInfos }
    \cup { [kind |-> "dict", record |-> s] : s \in SecInfos }

InitPage ==
    /\ pc = "start"
    /\ layout \in PageLayouts
    /\ section \in Sections
    /\ section_once = <<>>
    /\ IdleClassify /\ IdlePaper /\ IdleResolve /\ IdleFormat /\ IdleEscape /\ IdleCitation /\ IdlePara /\ IdleAnalyze /\ IdleRun /\ IdleLatex /\ IdleHeap /\ IdleMarkdown

\* setup_page(doc, style_rules.get("page_layout"))
SetupPage ==
    /\ pc = "start"
    /\ section' = setup_page(section, layout)
    /\ section_once' = setup_page(section, layout)
    /\ pc' = "once"
    /\ UNCHANGED layout
    /\ UNCHANGED <<classifyVars, paperVars, resolveVars, formatVars, escapeVars, citationVars, paraVars, analyzeVars, runVars, latexVars, heapVars, markdownVars>>

\* The same page setup applied to the section once more
SetupPageAgain ==
    /\ pc = "once"
    /\ section' = setup_page(section, layout)
    /\ pc' = "twice"
    /\ UNCHANGED <<layout, section_once>>
    /\ UNCHANGED <<classifyVars, paperVars, resolveVars, formatVars, escapeVars, citationVars, paraVars, analyzeVars, runVars, latexVars, heapVars, markdownVars>>

NextPage == SetupPage \/ SetupPageAgain
SpecPage == InitPage /\ [][NextPage]_vars

\* ---- Claims on the page setup ----
\* The record setup_page reads: the first of a list, or the record itself
SecInfo == IF layout.kind = "list" THEN layout.items[1] ELSE layout.record
Landscape ==
    /\ layout.kind # "null"
    /\ layout.kind = "list" => layout.items # <<>>
    /\ "orientation" \in DOMAIN SecInfo
    /\ SecInfo["orientation"] = "landscape"

\* Width and height of a section once lines 203-206 have set the page size
SizedWidth(sec) ==
    IF HasNumber(SecInfo, "page_width_cm") THEN Cm(SecInfo["page_width_cm"])
    ELSE sec.page_width
SizedHeight(sec) ==
    IF HasNumber(SecInfo, "page_height_cm") THEN Cm(SecInfo["page_height_cm"])
    ELSE sec.page_height

\* Landscape swaps width and height exactly when the width is less than the
\* height, so the width ends at least the height
SwapsWhenNarrower(before, after) ==
    /\ after.orientation = "landscape"
    /\ after.page_width >= after.page_height
    /\ IF SizedWidth(before) < SizedHeight(before)
       THEN after.page_width = SizedHeight(before) /\ after.page_height = SizedWidth(before)
       ELSE after.page_width = SizedWidth(before) /\ after.page_height = SizedHeight(before)

\* Both page dimensions are given (and not 0), or neither is
BothOrNeither ==
    HasNumber(SecInfo, "page_width_cm") <=> HasNumber(SecInfo, "page_height_cm")

\* C15 as stated: landscape swaps exactly when width < height, the width ends
\* at least the height, and the same page setup applied twice equals applying
\* it once.
C15_SetupTwiceEqualsOnce ==
    pc = "twice" /\ Landscape =>
        /\ SwapsWhenNarrower(section_once, section)
        /\ section = section_once

\* C15 (amended): landscape swaps exactly when width < height and the width
\* ends at least the height; applying the same page setup again leaves
\* already-landscape dimensions alone when the layout gives both page
\* dimensions or neither.
C15_LandscapeSwap ==
    /\ pc = "once" /\ Landscape => section.page_width >= section.page_height
    /\ pc = "twice" /\ Landscape =>
        /\ SwapsWhenNarrower(section_once, section)
        /\ BothOrNeither => section = section_once

\* A portrait size given in full, set up as landscape twice: swapped once
C15_Witness ==
    /\ pc = "twice"
    /\ Landscape
    /\ HasNumber(SecInfo, "page_width_cm") /\ HasNumber(SecInfo, "page_height_cm")
    /\ SecInfo["page_width_cm"] < SecInfo["page_height_cm"]
    /\ section.page_width = Cm(SecInfo["page_height_cm"])
    /\ section = section_once

(***************************************************************************)
(* Typesetting backend: generate_latex.generate_latex and its builders.    *)
(* The inputs are JSON documents as json.load returns them, each value     *)
(* tagged with its type: [null], [bool], [num] (the text of the number),   *)
(* [str], [list] (a sequence of values) and [dict] (a function on keys).   *)
(* A builder returns its lines, or the exception it raises.                *)
(***************************************************************************)
JNull == [null |-> TRUE]
JBool(b) == [bool |-> b]
JNum(t) == [num |-> t]
JStr(t) == [str |-> t]
JList(items) == [list |-> items]
JDict(f) == [dict |-> f]
IsNull(v) == "null" \in DOMAIN v
IsNum(v) == "num" \in DOMAIN v
IsStr(v) == "str" \in DOMAIN v
IsList(v) == "list" \in DOMAIN v
IsDict(v) == "dict" \in DOMAIN v

\* d.get(key, default) on a dict
JGet(d, k, default) == IF k \in DOMAIN d.dict THEN d.dict[k] ELSE default

\* float(text) in thousandths: digits, then at most three decimals
float_of(t) ==
    LET dot == {i \in 1..Len(t) : t[i] = "."}
        whole == IF dot = {} THEN t ELSE SubSeq(t, 1, Min(dot) - 1)
        frac == IF dot = {} THEN <<>> ELSE SubSeq(t, Min(dot) + 1, Len(t))
        padded == SubSeq(frac \o <<"0", "0", "0">>, 1, 3)
    IN  IntOf(whole) * 1000 + IntOf(padded)

\* Python truth of a value
JTruthy(v) ==
    IF IsNull(v) THEN FALSE
    ELSE IF "bool" \in DOMAIN v THEN v.bool
    ELSE IF IsNum(v) THEN float_of(v.num) # 0
    ELSE IF IsStr(v) THEN v.str # <<>>
    ELSE IF IsList(v) THEN v.list # <<>>
    ELSE DOMAIN v.dict # {}

\* The result of a step: a value, or an exception
Returns(v) == [raised |-> "", value |-> v]
Raises(exception) == [raised |-> exception, value |-> <<>>]

\* detect_chinese(text): re.search(r"[一-鿿]", text), False for no text
detect_chinese(t) == IF IsNull(t) THEN FALSE ELSE any_cjk(t.str)

\* Lines 68-70: the texts the sections add; content[i] iterates a list
RECURSIVE section_texts(_, _)
section_texts(sections, i) ==
    IF i > Len(sections) THEN Returns(<<>>)
    ELSE LET section_data == sections[i]
             heading == JGet(section_data, "heading", JStr(<<>>))
             body == JGet(section_data, "content", JList(<<>>))
             rest == section_texts(sections, i + 1)
         IN  IF IsNull(body) THEN Raises("TypeError")
             ELSE IF rest.raised # "" THEN rest
             ELSE Returns(<<heading>> \o body.list \o rest.value)

has_chinese_content(content_in) ==
    LET keywords == JGet(content_in, "keywords", JList(<<>>))
        sections == JGet(content_in, "sections", JList(<<>>))
    IN  IF IsNull(keywords) \/ IsNull(sections) THEN Raises("TypeError")
        ELSE LET below == section_texts(sections.list, 1)
                 joined == JStr(join(<<" ">>, [i \in 1..Len(keywords.list) |-> keywords.list[i].str]))
                 texts == <<JGet(content_in, "title", JStr(<<>>)),
                            JGet(content_in, "abstract", JStr(<<>>)), joined>>
             IN  IF below.raised # "" THEN below
                 ELSE Returns(\E i \in 1..Len(texts \o below.value) :
                                 detect_chinese((texts \o below.value)[i]))

\* page_layout as the builders read it (lines 126-127, 162-163, 335-336):
\* the first record of a non-empty list, else the value itself
first_section(rules) ==
    LET page_layout == JGet(rules, "page_layout", JList(<<JDict(EmptyDict)>>))
    IN  IF IsList(page_layout) /\ page_layout.list # <<>> THEN page_layout.list[1]
        ELSE page_layout

\* Lines 133-140: int(sizes[0]), then the thresholds; a size in thousandths
base_font_size(points) ==
    LET base_size == points \div 1000
    IN  IF base_size <= 10 THEN 10 ELSE IF base_size <= 11 THEN 11 ELSE 12

build_document_class(rules, chinese) ==
    LET sec == first_section(rules)
        para_fmt == JGet(rules, "paragraph_formatting", JDict(EmptyDict))
    IN  IF ~IsDict(para_fmt) THEN Raises("AttributeError")
        ELSE LET body == JGet(para_fmt, "body", JDict(EmptyDict))
             IN  IF ~IsDict(body) THEN Raises("AttributeError")
                 ELSE LET sizes == JGet(body, "font_sizes_pt", JList(<<JNum(<<"1", "2">>)>>))  \* "12"
                          base_size == IF JTruthy(sizes)
                                       THEN base_font_size(float_of(sizes.list[1].num))
                                       ELSE 12
                      IN  IF ~IsDict(sec) THEN Raises("AttributeError")
                          ELSE LET paper == JGet(sec, "paper_size", JStr(<<"A", "4">>))  \* "A4"
                                   columns == JGet(sec, "columns", JNum(<<"1">>))  \* "1"
                               IN  IF ~IsStr(paper) THEN Raises("AttributeError")
                                   ELSE LET paper_opt == IF Contains(lower(paper.str), <<"a", "4">>)  \* "a4"
                                                         THEN <<"a", "4", "p", "a", "p", "e", "r">> ELSE <<"l", "e", "t", "t", "e", "r", "p", "a", "p", "e", "r">>  \* "a4paper", "letterpaper"
                                            col_opt == IF IsNum(columns) /\ float_of(columns.num) = 2000
                                                       THEN <<<<"t", "w", "o", "c", "o", "l", "u", "m", "n">>>> ELSE <<>>  \* "twocolumn"
                                            opts == <<StrOf(base_size) \o <<"p", "t">>, paper_opt>> \o col_opt  \* "pt"
                                        IN  Returns(<<"\\", "d", "o", "c", "u", "m", "e", "n", "t", "c", "l", "a", "s", "s", "[">> \o join(<<",", " ">>, opts) \o <<"]", "{">>  \* "\documentclass[", ", ", "]{"
                                                    \o (IF chinese THEN <<"c", "t", "e", "x", "a", "r", "t">> ELSE <<"a", "r", "t", "i", "c", "l", "e">>)  \* "ctexart", "article"
                                                    \o <<"}">>)  \* "}"

\* A step of generate_latex: its lines are appended, or its exception ends
\* the run
Step(result, next_pc) ==
    IF result.raised # ""
    THEN pc' = "raised" /\ tex_error' = result.raised /\ UNCHANGED tex_lines
    ELSE pc' = next_pc /\ tex_lines' = tex_lines \o result.value /\ UNCHANGED tex_error

\* Line 377: is_chinese = has_chinese_content(content)
HasChineseContent ==
    /\ pc = "start"
    /\ LET result == has_chinese_content(tex_content)
       IN  IF result.raised # ""
           THEN pc' = "raised" /\ tex_error' = result.raised /\ UNCHANGED is_chinese
           ELSE pc' = "class" /\ is_chinese' = result.value /\ UNCHANGED tex_error
    /\ UNCHANGED <<tex_content, tex_rules, tex_lines>>
    /\ UNCHANGED <<classifyVars, paperVars, resolveVars, formatVars, escapeVars, citationVars, paraVars, analyzeVars, runVars, pageVars, heapVars, markdownVars>>

\* Lines 381-383: the document class and an empty line
BuildDocumentClass ==
    /\ pc = "class"
    /\ LET result == build_document_class(tex_rules, is_chinese)
       IN  Step(IF result.raised # "" THEN result ELSE Returns(<<result.value, <<>>>>),
                "packages")
    /\ UNCHANGED <<tex_content, tex_rules, is_chinese>>
    /\ UNCHANGED <<classifyVars, paperVars, resolveVars, formatVars, escapeVars, citationVars, paraVars, analyzeVars, runVars, pageVars, heapVars, markdownVars>>

\* ---- The document class: Content Trees and body sizes ----
\* A section of the Content Tree
Section(heading, body, subsections) ==
    JDict([heading |-> JStr(heading), level |-> JNum(<<"1">>),  \* "1"
           content |-> JList([i \in 1..Len(body) |-> JStr(body[i])]),
           subsections |-> JList(subsections)])

\* Section lists with an ideograph nowhere, or in one heading or paragraph at
\* depth 1, 2 or 3; kana are outside U+4E00..U+9FFF
ClassSections ==
    { <<>>,
      <<Section(<<"I", "n", "t", "r", "o">>, <<<<"t", "e", "x", "t">>>>, <<>>)>>,  \* "Intro", "text"
      <<Section(<<"U304B", "U306A">>, <<<<"U30AB", "U30CA", " ", "t", "e", "x", "t">>>>, <<>>)>>,  \* "\u304b\u306a", "\u30ab\u30ca text"
      <<Section(<<"U65B9", "U6CD5">>, <<<<"t", "e", "x", "t">>>>, <<>>)>>,  \* "\u65b9\u6cd5", "text"
      <<Section(<<"I", "n", "t", "r", "o">>, <<<<"t", "e", "x", "t">>>>, <<>>), Section(<<"M", "e", "t", "h", "o", "d", "s">>, <<<<>>, <<"s", "e", "e", " ", "U8868", " ", "1">>>>, <<>>)>>,  \* "Intro", "text", "Methods", "", "see \u8868 1"
      <<Section(<<"I", "n", "t", "r", "o">>, <<<<"t", "e", "x", "t">>>>, <<Section(<<"U7D50", "U679C">>, <<>>, <<>>)>>)>>,  \* "Intro", "text", "\u7d50\u679c"
      <<Section(<<"I", "n", "t", "r", "o">>, <<>>, <<Section(<<"D", "a", "t", "a">>, <<<<"U89C1", "U56FE", " ", "2">>>>, <<>>)>>)>>,  \* "Intro", "Data", "\u89c1\u56fe 2"
      <<Section(<<"I", "n", "t", "r", "o">>, <<>>,  \* "Intro"
            <<Section(<<"D", "a", "t", "a">>, <<<<"t", "e", "x", "t">>>>, <<Section(<<"D", "e", "e", "p">>, <<<<"U5173", "U952E">>>>, <<>>)>>)>>)>> }  \* "Data", "text", "Deep", "\u5173\u952e"

ClassContents ==
    { JDict(t @@ a @@ k @@ w @@ ("sections" :> JList(s))) :
        t \in Opt("title", {JStr(<<"A", " ", "T", "i", "t", "l", "e">>), JStr(<<"U6458", "U8981", " ", "o", "f", " ", "a", " ", "t", "i", "t", "l", "e">>)}),  \* "A Title", "\u6458\u8981 of a title"
        a \in Opt("abstract", {JStr(<<"a", "b", "s", "t", "r", "a", "c", "t">>), JStr(<<"U8981">>)}),  \* "abstract", "\u8981"
        k \in Opt("keywords", {JList(<<JStr(<<"o", "n", "e">>), JStr(<<"t", "w", "o">>)>>),  \* "one", "two"
                               JList(<<JStr(<<"o", "n", "e">>), JStr(<<"U8BCD">>)>>)}),  \* "one", "\u8bcd"
        w \in Opt("authors", {JList(<<JStr(<<"U5F20", "U4E09">>)>>)}),  \* "\u5f20\u4e09"
        s \in ClassSections }

\* Style-Rule Models whose body role has no size, or one of these sizes
BodySizes ==
    { <<>>, <<<<"9", ".", "0">>>>, <<<<"1", "0", ".", "0">>>>, <<<<"1", "0", ".", "5">>>>, <<<<"1", "0", ".", "5">>, <<"1", "2", ".", "0">>>>, <<<<"1", "1", ".", "0">>>>,  \* "9.0", "10.0", "10.5", "10.5", "12.0", "11.0"
      <<<<"1", "1", ".", "5">>>>, <<<<"1", "2", ".", "0">>>>, <<<<"1", "4", ".", "0">>>>, <<<<"1", "0">>>>, <<<<"1", "1">>>> }  \* "11.5", "12.0", "14.0", "10", "11"
RulesWithBody(body) ==
    JDict([page_layout |-> JList(<<JDict([paper_size |-> JStr(<<"A", "4">>)])>>),  \* "A4"
           paragraph_formatting |-> JDict([body |-> JDict(body)])])
ClassRules ==
    { JDict(EmptyDict), RulesWithBody(EmptyDict), RulesWithBody([font_sizes_pt |-> JNull]) }
    \cup { RulesWithBody([font_sizes_pt |-> JList([i \in 1..Len(sizes) |-> JNum(sizes[i])])]) :
             sizes \in BodySizes }

InitLatexClass ==
    /\ pc = "start"
    /\ tex_content \in ClassContents
    /\ tex_rules \in ClassRules
    /\ is_chinese = FALSE
    /\ tex_lines = <<>>
    /\ tex_error = ""
    /\ IdleClassify /\ IdlePaper /\ IdleResolve /\ IdleFormat /\ IdleEscape /\ IdleCitation /\ IdlePara /\ IdleAnalyze /\ IdleRun /\ IdlePage /\ IdleHeap /\ IdleMarkdown

NextLatexClass == HasChineseContent \/ BuildDocumentClass
SpecLatexClass == InitLatexClass /\ [][NextLatexClass]_vars

\* ---- Claims on the document class ----
\* A text of the Content Tree that counts for the class: an ideograph in it
HasCJK(v) == IsStr(v) /\ any_cjk(v.str)

\* An ideograph in the heading or a content paragraph of a section of the
\* list, at any nesting depth
RECURSIVE CJKInSections(_)
CJKInSections(sections) ==
    \E i \in 1..Len(sections) :
        \/ HasCJK(JGet(sections[i], "heading", JNull))
        \/ \E j \in 1..Len(JGet(sections[i], "content", JList(<<>>)).list) :
              HasCJK(sections[i].dict["content"].list[j])
        \/ CJKInSections(JGet(sections[i], "subsections", JList(<<>>)).list)

CJKInContent ==
    \/ HasCJK(JGet(tex_content, "title", JNull))
    \/ HasCJK(JGet(tex_content, "abstract", JNull))
    \/ \E i \in 1..Len(JGet(tex_content, "keywords", JList(<<>>)).list) :
          HasCJK(tex_content.dict["keywords"].list[i])
    \/ CJKInSections(JGet(tex_content, "sections", JList(<<>>)).list)

\* The class named at the end of the first line emitted
ClassLine == tex_lines[1]
ClassIs(name) ==
    LET tail == <<"{">> \o name \o <<"}">>
    IN  Len(ClassLine) >= Len(tail)
        /\ SubSeq(ClassLine, Len(ClassLine) - Len(tail) + 1, Len(ClassLine)) = tail
ClassBuilt == pc \notin {"start", "class"} /\ tex_lines # <<>>

\* C16: the class is ctexart if and only if an ideograph (U+4E00..U+9FFF)
\* occurs in the title, the abstract, a keyword, or the heading or a content
\* paragraph of a section at any nesting depth; otherwise it is article.
C16_CJKClass ==
    ClassBuilt =>
        /\ CJKInContent <=> ClassIs(<<"c", "t", "e", "x", "a", "r", "t">>)  \* "ctexart"
        /\ ~CJKInContent <=> ClassIs(<<"a", "r", "t", "i", "c", "l", "e">>)  \* "article"

\* The base size option of the class line: "10pt", "11pt" or "12pt"
BaseSizeIs(n) ==
    LET head == <<"\\", "d", "o", "c", "u", "m", "e", "n", "t", "c", "l", "a", "s", "s", "[">> \o StrOf(n) \o <<"p", "t", ",">>  \* "\documentclass[", "pt,"
    IN  startswith(ClassLine, head)
BodySize ==
    LET para_fmt == JGet(tex_rules, "paragraph_formatting", JDict(EmptyDict))
        body == JGet(para_fmt, "body", JDict(EmptyDict))
        sizes == JGet(body, "font_sizes_pt", JNull)
    IN  IF IsList(sizes) /\ sizes.list # <<>> THEN float_of(sizes.list[1].num) ELSE -1

\* C17: the body role's first font size s gives 10pt for s <= 10, 11pt for
\* 10 < s <= 11 (so 10.5 gives 11pt), 12pt for s > 11, and 12pt when the body
\* role has no font size.
C17_BaseSizeSnap ==
    ClassBuilt =>
        /\ BodySize = -1 => BaseSizeIs(12)
        /\ BodySize # -1 /\ BodySize <= 10000 => BaseSizeIs(10)
        /\ 10000 < BodySize /\ BodySize <= 11000 => BaseSizeIs(11)
        /\ BodySize > 11000 => BaseSizeIs(12)

\* What has_chinese_content looks at: title, abstract, keywords and the
\* heading and content of the top-level sections
CJKAtTopLevel ==
    \/ HasCJK(JGet(tex_content, "title", JNull))
    \/ HasCJK(JGet(tex_content, "abstract", JNull))
    \/ \E i \in 1..Len(JGet(tex_content, "keywords", JList(<<>>)).list) :
          HasCJK(tex_content.dict["keywords"].list[i])
    \/ \E i \in 1..Len(JGet(tex_content, "sections", JList(<<>>)).list) :
          LET section_data == tex_content.dict["sections"].list[i]
          IN  \/ HasCJK(JGet(section_data, "heading", JNull))
              \/ \E j \in 1..Len(JGet(section_data, "content", JList(<<>>)).list) :
                    HasCJK(section_data.dict["content"].list[j])

\* The class follows the ideographs of the top level only
C16_TopLevelCJKClass ==
    ClassBuilt =>
        /\ CJKAtTopLevel <=> ClassIs(<<"c", "t", "e", "x", "a", "r", "t">>)  \* "ctexart"
        /\ ~CJKAtTopLevel <=> ClassIs(<<"a", "r", "t", "i", "c", "l", "e">>)  \* "article"

\* The thresholds hold of the size truncated to an integer: 10.5 gives 10pt
C17_TruncatedSizeSnap ==
    ClassBuilt =>
        /\ BodySize = -1 => BaseSizeIs(12)
        /\ BodySize # -1 /\ BodySize < 11000 => BaseSizeIs(10)
        /\ 11000 <= BodySize /\ BodySize < 12000 => BaseSizeIs(11)
        /\ BodySize >= 12000 => BaseSizeIs(12)

\* ---- The preamble builders ----
\* "\n".join(lines) of a builder: one text holding its lines
NL == <<"\n">>
join_lines(lines) == join(NL, lines)

\* str(v) as an f-string writes it: a number by its text as json.load's
\* float or int prints it, None as "None"
py_str(v) ==
    IF IsNull(v) THEN <<"N", "o", "n", "e">>  \* "None"
    ELSE IF "bool" \in DOMAIN v THEN (IF v.bool THEN <<"T", "r", "u", "e">> ELSE <<"F", "a", "l", "s", "e">>)  \* "True", "False"
    ELSE IF IsNum(v) THEN v.num
    ELSE v.str

\* str(float(text))
float_str(t) == IF \E i \in 1..Len(t) : t[i] = "." THEN t ELSE t \o <<".", "0">>  \* ".0"

\* The first name of font_names with (cjk) or without an ideograph, None
\* when there is none
first_font(font_names, cjk) ==
    LET found == {i \in 1..Len(font_names) : any_cjk(font_names[i].str) = cjk}
    IN  IF found = {} THEN JNull ELSE font_names[Min(found)]

\* Lines 165-172: the margins that are set and not zero
margin_parts(margins) ==
    LET sides == <<<<"t", "o", "p">>, <<"b", "o", "t", "t", "o", "m">>, <<"l", "e", "f", "t">>, <<"r", "i", "g", "h", "t">>>>  \* "top", "bottom", "left", "right"
        keys == <<"top_cm", "bottom_cm", "left_cm", "right_cm">>
        given == SelectSeq(<<1, 2, 3, 4>>, LAMBDA i : JTruthy(JGet(margins, keys[i], JNull)))
    IN  [n \in 1..Len(given) |->
            sides[given[n]] \o <<"=">> \o py_str(margins.dict[keys[given[n]]]) \o <<"c", "m">>]  \* "=", "cm"

build_geometry(rules) ==
    LET sec == first_section(rules)
    IN  IF ~IsDict(sec) THEN Raises("AttributeError")
        ELSE LET margins == JGet(sec, "margins", JDict(EmptyDict))
             IN  IF ~IsDict(margins) THEN Raises("AttributeError")
                 ELSE LET parts == IF margin_parts(margins) = <<>>
                                   THEN <<<<"t", "o", "p", "=", "2", ".", "5", "4", "c", "m">>, <<"b", "o", "t", "t", "o", "m", "=", "2", ".", "5", "4", "c", "m">>, <<"l", "e", "f", "t", "=", "2", ".", "5", "4", "c", "m">>, <<"r", "i", "g", "h", "t", "=", "2", ".", "5", "4", "c", "m">>>>  \* "top=2.54cm", "bottom=2.54cm", "left=2.54cm", "right=2.54cm"
                                   ELSE margin_parts(margins)
                      IN  Returns(<<"\\", "u", "s", "e", "p", "a", "c", "k", "a", "g", "e", "[">> \o join(<<",", " ">>, parts) \o <<"]", "{", "g", "e", "o", "m", "e", "t", "r", "y", "}">>)  \* "\usepackage[", ", ", "]{geometry}"

build_font_config(rules, chinese) ==
    LET para_fmt == JGet(rules, "paragraph_formatting", JDict(EmptyDict))
    IN  IF ~IsDict(para_fmt) THEN Raises("AttributeError")
        ELSE LET body == JGet(para_fmt, "body", JDict(EmptyDict))
             IN  IF ~IsDict(body) THEN Raises("AttributeError")
                 ELSE LET font_names == JGet(body, "font_names", JList(<<>>))
                      IN  IF ~IsList(font_names) THEN Raises("TypeError")
                          ELSE LET main_font == first_font(font_names.list, FALSE)
                                   cn_font == first_font(font_names.list, TRUE)
                                   heading == JGet(para_fmt, "heading_1", JDict(EmptyDict))
                                   main == <<<<"\\", "u", "s", "e", "p", "a", "c", "k", "a", "g", "e", "{", "f", "o", "n", "t", "s", "p", "e", "c", "}">>,  \* "\usepackage{fontspec}"
                                             IF JTruthy(main_font)
                                             THEN <<"\\", "s", "e", "t", "m", "a", "i", "n", "f", "o", "n", "t", "{">> \o main_font.str \o <<"}">>  \* "\setmainfont{", "}"
                                             ELSE <<"\\", "s", "e", "t", "m", "a", "i", "n", "f", "o", "n", "t", "{", "T", "i", "m", "e", "s", " ", "N", "e", "w", " ", "R", "o", "m", "a", "n", "}">>>>  \* "\setmainfont{Times New Roman}"
                                   cjk == <<<<"\\", "u", "s", "e", "p", "a", "c", "k", "a", "g", "e", "{", "x", "e", "C", "J", "K", "}">>,  \* "\usepackage{xeCJK}"
                                            IF JTruthy(cn_font)
                                            THEN <<"\\", "s", "e", "t", "C", "J", "K", "m", "a", "i", "n", "f", "o", "n", "t", "{">> \o cn_font.str \o <<"}">>  \* "\setCJKmainfont{", "}"
                                            ELSE <<"%", " ", "\\", "s", "e", "t", "C", "J", "K", "m", "a", "i", "n", "f", "o", "n", "t", "{", "S", "i", "m", "S", "u", "n", "}", " ", " ", "%", " ", "U", "n", "c", "o", "m", "m", "e", "n", "t", " ", "a", "n", "d", " ", "s", "e", "t", " ", "a", "p", "p", "r", "o", "p", "r", "i", "a", "t", "e", " ", "C", "h", "i", "n", "e", "s", "e", " ", "f", "o", "n", "t">>>>  \* "% \setCJKmainfont{SimSun}  % Uncomment and set appropriate Chinese font"
                               IN  IF ~chinese THEN Returns(join_lines(main))
                                   ELSE IF ~IsDict(heading) THEN Raises("AttributeError")
                                   ELSE LET h_fonts == JGet(heading, "font_names", JList(<<>>))
                                        IN  IF ~IsList(h_fonts) THEN Raises("TypeError")
                                            ELSE LET cn_h_font == first_font(h_fonts.list, TRUE)
                                                 IN  Returns(join_lines(main \o cjk \o
                                                         (IF JTruthy(cn_h_font)
                                                          THEN <<<<"\\", "s", "e", "t", "C", "J", "K", "s", "a", "n", "s", "f", "o", "n", "t", "{">> \o cn_h_font.str \o <<"}">>>>  \* "\setCJKsansfont{", "}"
                                                          ELSE <<>>)))

\* A text float() accepts: digits with at most one point
is_float_text(t) ==
    /\ \E i \in 1..Len(t) : t[i] \in DigitChars
    /\ \A i \in 1..Len(t) : t[i] \in DigitChars \cup {"."}
    /\ Cardinality({i \in 1..Len(t) : t[i] = "."}) <= 1

\* Lines 244-255: a multiple of the line height; what float() rejects
\* gives one-and-a-half spacing
spacing_multiple(spacing) ==
    LET number == IF IsNum(spacing) THEN spacing.num
                  ELSE IF "bool" \in DOMAIN spacing THEN <<"1", ".", "0">>  \* "1.0"
                  ELSE IF IsStr(spacing) /\ is_float_text(spacing.str) THEN spacing.str
                  ELSE <<>>
        val == float_of(number)
    IN  IF number = <<>> THEN <<"\\", "o", "n", "e", "h", "a", "l", "f", "s", "p", "a", "c", "i", "n", "g">>  \* "\onehalfspacing"
        ELSE IF val <= 1100 THEN <<"\\", "s", "i", "n", "g", "l", "e", "s", "p", "a", "c", "i", "n", "g">>  \* "\singlespacing"
        ELSE IF val <= 1600 THEN <<"\\", "o", "n", "e", "h", "a", "l", "f", "s", "p", "a", "c", "i", "n", "g">>  \* "\onehalfspacing"
        ELSE IF val <= 2100 THEN <<"\\", "d", "o", "u", "b", "l", "e", "s", "p", "a", "c", "i", "n", "g">>  \* "\doublespacing"
        ELSE <<"\\", "s", "e", "t", "s", "t", "r", "e", "t", "c", "h", "{">> \o float_str(number) \o <<"}">>  \* "\setstretch{", "}"

build_spacing_config(rules) ==
    LET para_fmt == JGet(rules, "paragraph_formatting", JDict(EmptyDict))
    IN  IF ~IsDict(para_fmt) THEN Raises("AttributeError")
        ELSE LET body == JGet(para_fmt, "body", JDict(EmptyDict))
             IN  IF ~IsDict(body) THEN Raises("AttributeError")
                 ELSE LET spacing == JGet(body, "line_spacing", JNull)
                          exact == IsStr(spacing) /\ Len(spacing.str) >= 2
                                   /\ SubSeq(spacing.str, Len(spacing.str) - 1, Len(spacing.str)) = <<"p", "t">>  \* "pt"
                      IN  IF exact /\ ~is_float_text(remove_pt(spacing.str)) THEN Raises("ValueError")
                          ELSE Returns(join_lines(<<<<"\\", "u", "s", "e", "p", "a", "c", "k", "a", "g", "e", "{", "s", "e", "t", "s", "p", "a", "c", "e", "}">>>> \o  \* "\usepackage{setspace}"
                              (IF ~JTruthy(spacing) THEN <<>>
                               ELSE IF exact
                               THEN <<<<"\\", "s", "e", "t", "s", "t", "r", "e", "t", "c", "h", "{", "1", ".", "0", "}">>,  \* "\setstretch{1.0}"
                                      <<"\\", "s", "e", "t", "l", "e", "n", "g", "t", "h", "{", "\\", "b", "a", "s", "e", "l", "i", "n", "e", "s", "k", "i", "p", "}", "{">> \o float_str(remove_pt(spacing.str)) \o <<"p", "t", "}">>>>  \* "\setlength{\baselineskip}{", "pt}"
                               ELSE <<spacing_multiple(spacing)>>)))

\* Lines 79-91: the size commands and the sizes they stand for
size_map ==
    << <<5, <<"\\", "t", "i", "n", "y">>>>, <<7, <<"\\", "s", "c", "r", "i", "p", "t", "s", "i", "z", "e">>>>, <<8, <<"\\", "f", "o", "o", "t", "n", "o", "t", "e", "s", "i", "z", "e">>>>, <<9, <<"\\", "s", "m", "a", "l", "l">>>>,  \* "\tiny", "\scriptsize", "\footnotesize", "\small"
       <<10, <<"\\", "n", "o", "r", "m", "a", "l", "s", "i", "z", "e">>>>, <<11, <<"\\", "n", "o", "r", "m", "a", "l", "s", "i", "z", "e">>>>, <<12, <<"\\", "l", "a", "r", "g", "e">>>>, <<14, <<"\\", "L", "a", "r", "g", "e">>>>,  \* "\normalsize", "\normalsize", "\large", "\Large"
       <<17, <<"\\", "L", "A", "R", "G", "E">>>>, <<20, <<"\\", "h", "u", "g", "e">>>>, <<25, <<"\\", "H", "u", "g", "e">>>> >>  \* "\LARGE", "\huge", "\Huge"

\* pt_to_latex_size: min() keeps the first of the closest entries
pt_to_latex_size(pt) ==
    IF IsNull(pt) THEN JNull
    ELSE LET distance(k) == Abs(size_map[k][1] * 1000 - float_of(pt.num))
             closest == Min({k \in 1..Len(size_map) :
                               \A j \in 1..Len(size_map) : distance(k) <= distance(j)})
         IN  JStr(size_map[closest][2])

\* str.lstrip("\\")
lstrip_backslash(s) ==
    LET keep == {i \in 1..Len(s) : s[i] # "\\"}
    IN  IF keep = {} THEN <<>> ELSE SubSeq(s, Min(keep), Len(s))

\* Lines 267-301: the two lines of one heading level
heading_lines(fmt_in, cmd) ==
    LET sizes == JGet(fmt_in, "font_sizes_pt", JList(<<>>))
        size_cmd == IF JTruthy(sizes) THEN pt_to_latex_size(sizes.list[1]) ELSE JNull
        bold == JGet(fmt_in, "bold", JBool(TRUE))
        align == JGet(fmt_in, "alignment", JStr(<<"l", "e", "f", "t">>))  \* "left"
        shaped == (IF JTruthy(bold) THEN <<"\\", "b", "f", "s", "e", "r", "i", "e", "s">> ELSE <<"\\", "n", "o", "r", "m", "a", "l", "f", "o", "n", "t">>)  \* "\bfseries", "\normalfont"
                  \o (IF JTruthy(JGet(fmt_in, "italic", JNull)) THEN <<"\\", "i", "t", "s", "h", "a", "p", "e">> ELSE <<>>)  \* "\itshape"
        font_spec == (IF JTruthy(size_cmd) THEN size_cmd.str ELSE <<>>) \o shaped
        before == JGet(fmt_in, "space_before_pt", JNum(<<"1", "2">>))  \* "12"
        after == JGet(fmt_in, "space_after_pt", JNum(<<"6">>))  \* "6"
        align_cmd == IF align = JStr(<<"c", "e", "n", "t", "e", "r">>) THEN <<"\\", "f", "i", "l", "c", "e", "n", "t", "e", "r">> ELSE <<>>  \* "center", "\filcenter"
    IN  << <<"\\", "t", "i", "t", "l", "e", "f", "o", "r", "m", "a", "t", "{", "\\">> \o cmd \o <<"}", "{", "\\">> \o lstrip_backslash(font_spec) \o <<"}", "{", "\\", "t", "h", "e">>  \* "\titleformat{\", "}{\", "}{\the"
              \o cmd \o <<"}", "{", "1", "e", "m", "}", "{">> \o align_cmd \o <<"}">>,  \* "}{1em}{", "}"
           <<"\\", "t", "i", "t", "l", "e", "s", "p", "a", "c", "i", "n", "g", "*", "{", "\\">> \o cmd \o <<"}", "{", "0", "p", "t", "}", "{">> \o py_str(before) \o <<"p", "t", "}", "{">>  \* "\titlespacing*{\", "}{0pt}{", "pt}{"
              \o py_str(after) \o <<"p", "t", "}">> >>  \* "pt}"

build_heading_config(rules) ==
    LET para_fmt == JGet(rules, "paragraph_formatting", JDict(EmptyDict))
        cmds == <<<<"s", "e", "c", "t", "i", "o", "n">>, <<"s", "u", "b", "s", "e", "c", "t", "i", "o", "n">>, <<"s", "u", "b", "s", "u", "b", "s", "e", "c", "t", "i", "o", "n">>>>  \* "section", "subsection", "subsubsection"
        roles == <<"heading_1", "heading_2", "heading_3">>
    IN  IF ~IsDict(para_fmt) THEN Raises("AttributeError")
        ELSE IF \E k \in 1..3 : ~IsDict(JGet(para_fmt, roles[k], JDict(EmptyDict)))
        THEN Raises("AttributeError")
        ELSE Returns(join_lines(
                 <<<<"\\", "u", "s", "e", "p", "a", "c", "k", "a", "g", "e", "{", "t", "i", "t", "l", "e", "s", "e", "c", "}">>>>  \* "\usepackage{titlesec}"
                 \o heading_lines(JGet(para_fmt, roles[1], JDict(EmptyDict)), cmds[1])
                 \o heading_lines(JGet(para_fmt, roles[2], JDict(EmptyDict)), cmds[2])
                 \o heading_lines(JGet(para_fmt, roles[3], JDict(EmptyDict)), cmds[3])))

build_header_footer(rules) ==
    LET sec == first_section(rules)
    IN  IF ~IsDict(sec) THEN Raises("AttributeError")
        ELSE LET header_text == JGet(sec, "header_text", JStr(<<>>))
                 footer_text == JGet(sec, "footer_text", JStr(<<>>))
             IN  Returns(join_lines(
                     <<<<"\\", "u", "s", "e", "p", "a", "c", "k", "a", "g", "e", "{", "f", "a", "n", "c", "y", "h", "d", "r", "}">>, <<"\\", "p", "a", "g", "e", "s", "t", "y", "l", "e", "{", "f", "a", "n", "c", "y", "}">>, <<"\\", "f", "a", "n", "c", "y", "h", "f", "{", "}">>>>  \* "\usepackage{fancyhdr}", "\pagestyle{fancy}", "\fancyhf{}"
                     \o (IF JTruthy(header_text)
                         THEN <<<<"\\", "f", "a", "n", "c", "y", "h", "e", "a", "d", "[", "C", "]", "{">> \o escape_latex(header_text.str) \o <<"}">>>>  \* "\fancyhead[C]{", "}"
                         ELSE <<>>)
                     \o <<IF JTruthy(footer_text)
                          THEN <<"\\", "f", "a", "n", "c", "y", "f", "o", "o", "t", "[", "C", "]", "{">> \o escape_latex(footer_text.str) \o <<"}">>  \* "\fancyfoot[C]{", "}"
                          ELSE <<"\\", "f", "a", "n", "c", "y", "f", "o", "o", "t", "[", "C", "]", "{", "\\", "t", "h", "e", "p", "a", "g", "e", "}">>>>  \* "\fancyfoot[C]{\thepage}"
                     \o <<<<"\\", "r", "e", "n", "e", "w", "c", "o", "m", "m", "a", "n", "d", "{", "\\", "h", "e", "a", "d", "r", "u", "l", "e", "w", "i", "d", "t", "h", "}", "{", "0", ".", "4", "p", "t", "}">>>>))  \* "\renewcommand{\headrulewidth}{0.4pt}"

\* v and v > 0, for the lengths the extractor writes (never negative); a
\* text or a list cannot be compared with 0
positive(v) == JTruthy(v)
comparable(v) == ~JTruthy(v) \/ IsNum(v) \/ "bool" \in DOMAIN v

build_indent_config(rules, chinese) ==
    LET para_fmt == JGet(rules, "paragraph_formatting", JDict(EmptyDict))
    IN  IF ~IsDict(para_fmt) THEN Raises("AttributeError")
        ELSE LET body == JGet(para_fmt, "body", JDict(EmptyDict))
             IN  IF ~IsDict(body) THEN Raises("AttributeError")
                 ELSE LET indent == JGet(body, "first_line_indent_cm", JNull)
                          para_skip == JGet(body, "space_after_pt", JNull)
                      IN  IF ~comparable(indent) \/ ~comparable(para_skip)
                          THEN Raises("TypeError")
                          ELSE Returns(join_lines(
                                  <<IF positive(indent)
                                    THEN <<"\\", "s", "e", "t", "l", "e", "n", "g", "t", "h", "{", "\\", "p", "a", "r", "i", "n", "d", "e", "n", "t", "}", "{">> \o py_str(indent) \o <<"c", "m", "}">>  \* "\setlength{\parindent}{", "cm}"
                                    ELSE IF chinese THEN <<"\\", "s", "e", "t", "l", "e", "n", "g", "t", "h", "{", "\\", "p", "a", "r", "i", "n", "d", "e", "n", "t", "}", "{", "2", "e", "m", "}">>  \* "\setlength{\parindent}{2em}"
                                    ELSE <<"\\", "s", "e", "t", "l", "e", "n", "g", "t", "h", "{", "\\", "p", "a", "r", "i", "n", "d", "e", "n", "t", "}", "{", "0", ".", "5", "i", "n", "}">>>>  \* "\setlength{\parindent}{0.5in}"
                                  \o (IF positive(para_skip)
                                      THEN <<<<"\\", "s", "e", "t", "l", "e", "n", "g", "t", "h", "{", "\\", "p", "a", "r", "s", "k", "i", "p", "}", "{">> \o py_str(para_skip) \o <<"p", "t", "}">>>>  \* "\setlength{\parskip}{", "pt}"
                                      ELSE <<>>)))

\* ---- The citation package ----
\* Lines 21-51
CITATION_PACKAGES ==
    [ numeric |-> [package |-> <<"\\", "u", "s", "e", "p", "a", "c", "k", "a", "g", "e", "[", "n", "u", "m", "b", "e", "r", "s", ",", "s", "o", "r", "t", "&", "c", "o", "m", "p", "r", "e", "s", "s", "]", "{", "n", "a", "t", "b", "i", "b", "}">>, bibstyle |-> <<"u", "n", "s", "r", "t", "n", "a", "t">>],  \* "\usepackage[numbers,sort&compress]{natbib}", "unsrtnat"
      author_year |-> [package |-> <<"\\", "u", "s", "e", "p", "a", "c", "k", "a", "g", "e", "[", "a", "u", "t", "h", "o", "r", "y", "e", "a", "r", ",", "r", "o", "u", "n", "d", "]", "{", "n", "a", "t", "b", "i", "b", "}">>, bibstyle |-> <<"p", "l", "a", "i", "n", "n", "a", "t">>],  \* "\usepackage[authoryear,round]{natbib}", "plainnat"
      apa |-> [package |-> <<"\\", "u", "s", "e", "p", "a", "c", "k", "a", "g", "e", "[", "s", "t", "y", "l", "e", "=", "a", "p", "a", ",", "b", "a", "c", "k", "e", "n", "d", "=", "b", "i", "b", "e", "r", "]", "{", "b", "i", "b", "l", "a", "t", "e", "x", "}">>, bibstyle |-> None],  \* "\usepackage[style=apa,backend=biber]{biblatex}"
      ieee |-> [package |-> <<"\\", "u", "s", "e", "p", "a", "c", "k", "a", "g", "e", "[", "n", "u", "m", "b", "e", "r", "s", "]", "{", "n", "a", "t", "b", "i", "b", "}">>, bibstyle |-> <<"I", "E", "E", "E", "t", "r", "a", "n", "N">>],  \* "\usepackage[numbers]{natbib}", "IEEEtranN"
      gb7714_numeric |-> [package |-> <<"\\", "u", "s", "e", "p", "a", "c", "k", "a", "g", "e", "[", "s", "t", "y", "l", "e", "=", "g", "b", "7", "7", "1", "4", "-", "2", "0", "1", "5", ",", "b", "a", "c", "k", "e", "n", "d", "=", "b", "i", "b", "e", "r", "]", "{", "b", "i", "b", "l", "a", "t", "e", "x", "}">>, bibstyle |-> None],  \* "\usepackage[style=gb7714-2015,backend=biber]{biblatex}"
      gb7714_authoryear |-> [package |-> <<"\\", "u", "s", "e", "p", "a", "c", "k", "a", "g", "e", "[", "s", "t", "y", "l", "e", "=", "g", "b", "7", "7", "1", "4", "-", "2", "0", "1", "5", "a", "y", ",", "b", "a", "c", "k", "e", "n", "d", "=", "b", "i", "b", "e", "r", "]", "{", "b", "i", "b", "l", "a", "t", "e", "x", "}">>, bibstyle |-> None],  \* "\usepackage[style=gb7714-2015ay,backend=biber]{biblatex}"
      vancouver |-> [package |-> <<"\\", "u", "s", "e", "p", "a", "c", "k", "a", "g", "e", "[", "n", "u", "m", "b", "e", "r", "s", ",", "s", "o", "r", "t", "&", "c", "o", "m", "p", "r", "e", "s", "s", "]", "{", "n", "a", "t", "b", "i", "b", "}">>, bibstyle |-> <<"v", "a", "n", "c", "o", "u", "v", "e", "r">>] ]  \* "\usepackage[numbers,sort&compress]{natbib}", "vancouver"

\* The tests for IEEE, APA and Vancouver ahead of the one for GB/T 7714
cit_key_of_gbt_last(label) ==
    IF Contains(lower(label), <<"i", "e", "e", "e">>) THEN "ieee"  \* "ieee"
    ELSE IF Contains(lower(label), <<"a", "p", "a">>) THEN "apa"  \* "apa"
    ELSE IF Contains(lower(label), <<"v", "a", "n", "c", "o", "u", "v", "e", "r">>) THEN "vancouver"  \* "vancouver"
    ELSE IF Contains(label, <<"G", "B", "/", "T", " ", "7", "7", "1", "4">>) \/ Contains(lower(label), <<"g", "b", "7", "7", "1", "4">>)  \* "GB/T 7714", "gb7714"
    THEN (IF Contains(lower(label), <<"a", "u", "t", "h", "o", "r", "-", "y", "e", "a", "r">>) THEN "gb7714_authoryear" ELSE "gb7714_numeric")  \* "author-year"
    ELSE IF Contains(lower(label), <<"a", "u", "t", "h", "o", "r", "-", "y", "e", "a", "r">>) THEN "author_year"  \* "author-year"
    ELSE IF Contains(lower(label), <<"n", "u", "m", "e", "r", "i", "c">>) THEN "numeric"  \* "numeric"
    ELSE ""

\* Lines 416-431: the key of the label, "" for None; the keys are written
\* with _ for -
cit_key_of(label) ==
    IF Contains(label, <<"G", "B", "/", "T", " ", "7", "7", "1", "4">>) \/ Contains(lower(label), <<"g", "b", "7", "7", "1", "4">>)  \* "GB/T 7714", "gb7714"
    THEN (IF Contains(lower(label), <<"a", "u", "t", "h", "o", "r", "-", "y", "e", "a", "r">>) THEN "gb7714_authoryear" ELSE "gb7714_numeric")  \* "author-year"
    ELSE IF Contains(lower(label), <<"i", "e", "e", "e">>) THEN "ieee"  \* "ieee"
    ELSE IF Contains(lower(label), <<"a", "p", "a">>) THEN "apa"  \* "apa"
    ELSE IF Contains(lower(label), <<"v", "a", "n", "c", "o", "u", "v", "e", "r">>) THEN "vancouver"  \* "vancouver"
    ELSE IF Contains(lower(label), <<"a", "u", "t", "h", "o", "r", "-", "y", "e", "a", "r">>) THEN "author_year"  \* "author-year"
    ELSE IF Contains(lower(label), <<"n", "u", "m", "e", "r", "i", "c">>) THEN "numeric"  \* "numeric"
    ELSE ""

\* Lines 413-439
citation_package(rules) ==
    LET citation == JGet(rules, "citation_style", JDict(EmptyDict))
    IN  IF ~IsDict(citation) THEN Raises("AttributeError")
        ELSE LET label == JGet(citation, "detected_style", JStr(<<>>))
             IN  IF ~IsStr(label) THEN Raises("TypeError")
                 ELSE LET cit_key == cit_key_of(label.str)
                      IN  IF cit_key # "" /\ cit_key \in DOMAIN CITATION_PACKAGES
                          THEN Returns(<<<<"%", " ", "=", "=", "=", " ", "C", "i", "t", "a", "t", "i", "o", "n", " ", "S", "t", "y", "l", "e", ":", " ">> \o label.str \o <<" ", "=", "=", "=">>,  \* "% === Citation Style: ", " ==="
                                         CITATION_PACKAGES[cit_key].package, <<>>>>)
                          ELSE Returns(<<<<"%", " ", "=", "=", "=", " ", "C", "i", "t", "a", "t", "i", "o", "n", " ", "(", "d", "e", "f", "a", "u", "l", "t", " ", "n", "u", "m", "e", "r", "i", "c", ")", " ", "=", "=", "=">>,  \* "% === Citation (default numeric) ==="
                                         <<"\\", "u", "s", "e", "p", "a", "c", "k", "a", "g", "e", "[", "n", "u", "m", "b", "e", "r", "s", ",", "s", "o", "r", "t", "&", "c", "o", "m", "p", "r", "e", "s", "s", "]", "{", "n", "a", "t", "b", "i", "b", "}">>, <<>>>>)  \* "\usepackage[numbers,sort&compress]{natbib}"

\* ---- The body ----
\* Three tiers only: every depth from 3 on is a subsubsection
cmd_of_three_tiers(level) ==
    IF level = 1 THEN <<"s", "e", "c", "t", "i", "o", "n">> ELSE IF level = 2 THEN <<"s", "u", "b", "s", "e", "c", "t", "i", "o", "n">> ELSE <<"s", "u", "b", "s", "u", "b", "s", "e", "c", "t", "i", "o", "n">>  \* "section", "subsection", "subsubsection"

\* Line 358-359: the heading command of a depth
cmd_of(level) ==
    IF level = 1 THEN <<"s", "e", "c", "t", "i", "o", "n">> ELSE IF level = 2 THEN <<"s", "u", "b", "s", "e", "c", "t", "i", "o", "n">>  \* "section", "subsection"
    ELSE IF level = 3 THEN <<"s", "u", "b", "s", "u", "b", "s", "e", "c", "t", "i", "o", "n">> ELSE <<"p", "a", "r", "a", "g", "r", "a", "p", "h">>  \* "subsubsection", "paragraph"

\* Every paragraph, blank or not, each with an empty line
RECURSIVE render_content_keeping_blank(_, _)
render_content_keeping_blank(paras, i) ==
    IF i > Len(paras) THEN <<>>
    ELSE <<escape_latex(paras[i].str), <<>>>> \o render_content_keeping_blank(paras, i + 1)

\* Lines 364-367: the paragraphs that are not blank, each with an empty line
RECURSIVE render_content(_, _)
render_content(paras, i) ==
    IF i > Len(paras) THEN <<>>
    ELSE (IF strip(paras[i].str) # <<>> THEN <<escape_latex(paras[i].str), <<>>>> ELSE <<>>)
         \o render_content(paras, i + 1)

RECURSIVE render_section(_, _)
RECURSIVE render_sections(_, _, _)
render_section(section_data, level) ==
    LET heading == JGet(section_data, "heading", JStr(<<>>))
        body == JGet(section_data, "content", JList(<<>>))
        subsections == JGet(section_data, "subsections", JList(<<>>))
    IN  IF ~IsList(body) \/ ~IsList(subsections) THEN Raises("TypeError")
        ELSE LET below == render_sections(subsections.list, 1, level + 1)
             IN  IF below.raised # "" THEN below
                 ELSE Returns(<<<<"\\">> \o cmd_of(level) \o <<"{">>  \* "\", "{"
                                   \o escape_latex(IF IsNull(heading) THEN None ELSE heading.str)
                                   \o <<"}">>, <<>>>>  \* "}"
                              \o render_content(body.list, 1) \o below.value)

\* Lines 369-370 and 474-476: the sections of a list, in order
render_sections(sections, i, level) ==
    IF i > Len(sections) THEN Returns(<<>>)
    ELSE LET first == render_section(sections[i], level)
             rest == render_sections(sections, i + 1, level)
         IN  IF first.raised # "" THEN first
             ELSE IF rest.raised # "" THEN rest
             ELSE Returns(first.value \o rest.value)

\* re.sub(r"^\[?\d+\]?\s*", "", ref): a leading numeral, bracketed or not,
\* and the blanks after it
strip_numeral(ref) ==
    LET open == IF Len(ref) > 0 /\ ref[1] = "[" THEN 1 ELSE 0
        digits_end == RunEnd(ref, open + 1, DigitChars)
        close == IF digits_end < Len(ref) /\ ref[digits_end + 1] = "]" THEN 1 ELSE 0
        blanks_end == RunEnd(ref, digits_end + close + 1, Whitespace)
    IN  IF digits_end < open + 1 THEN ref
        ELSE SubSeq(ref, blanks_end + 1, Len(ref))

\* Lines 445-497: the document body
document_body(content_in, chinese) ==
    LET field(k) == JGet(content_in, k, JNull)
        given(k) == JTruthy(field(k))
        sections == JGet(content_in, "sections", JList(<<>>))
        rendered == render_sections(sections.list, 1, 1)
        escape_all(list) == [i \in 1..Len(list) |-> escape_latex(list[i].str)]
        items == [i \in 1..Len(field("references").list) |->
                     <<" ", " ", "\\", "i", "t", "e", "m", " ">> \o escape_latex(strip_numeral(field("references").list[i].str))]  \* "  \item "
    IN  IF ~IsList(sections) THEN Raises("TypeError")
        ELSE IF rendered.raised # "" THEN rendered
        ELSE Returns(
            <<<<"\\", "b", "e", "g", "i", "n", "{", "d", "o", "c", "u", "m", "e", "n", "t", "}">>, <<>>>>  \* "\begin{document}"
            \o (IF given("title") THEN <<<<"\\", "t", "i", "t", "l", "e", "{">> \o escape_latex(field("title").str) \o <<"}">>>> ELSE <<>>)  \* "\title{", "}"
            \o (IF given("authors")
                THEN <<<<"\\", "a", "u", "t", "h", "o", "r", "{">> \o join(<<" ", "\\", "a", "n", "d", " ">>, escape_all(field("authors").list)) \o <<"}">>>>  \* "\author{", " \and ", "}"
                ELSE <<>>)
            \o (IF given("title") \/ given("authors") THEN <<<<"\\", "m", "a", "k", "e", "t", "i", "t", "l", "e">>, <<>>>> ELSE <<>>)  \* "\maketitle"
            \o (IF given("abstract")
                THEN <<<<"\\", "b", "e", "g", "i", "n", "{", "a", "b", "s", "t", "r", "a", "c", "t", "}">>, escape_latex(field("abstract").str), <<"\\", "e", "n", "d", "{", "a", "b", "s", "t", "r", "a", "c", "t", "}">>, <<>>>>  \* "\begin{abstract}", "\end{abstract}"
                ELSE <<>>)
            \o (IF given("keywords")
                THEN <<<<"\\", "n", "o", "i", "n", "d", "e", "n", "t", "\\", "t", "e", "x", "t", "b", "f", "{">> \o (IF chinese THEN <<"U5173", "U952E", "U8BCD">> ELSE <<"K", "e", "y", "w", "o", "r", "d", "s">>) \o <<":", "}", " ">>  \* "\noindent\textbf{", "\u5173\u952e\u8bcd", "Keywords", ":} "
                         \o join(IF chinese THEN <<"UFF1B">> ELSE <<";", " ">>, escape_all(field("keywords").list)),  \* "\uff1b", "; "
                       <<>>>>
                ELSE <<>>)
            \o rendered.value
            \o (IF given("acknowledgments")
                THEN <<<<"\\", "s", "e", "c", "t", "i", "o", "n", "*", "{">> \o (IF chinese THEN <<"U81F4", "U8C22">> ELSE <<"A", "c", "k", "n", "o", "w", "l", "e", "d", "g", "m", "e", "n", "t", "s">>) \o <<"}">>,  \* "\section*{", "\u81f4\u8c22", "Acknowledgments", "}"
                       escape_latex(field("acknowledgments").str), <<>>>>
                ELSE <<>>)
            \o (IF given("references")
                THEN <<<<"\\", "s", "e", "c", "t", "i", "o", "n", "*", "{">> \o (IF chinese THEN <<"U53C2", "U8003", "U6587", "U732E">> ELSE <<"R", "e", "f", "e", "r", "e", "n", "c", "e", "s">>) \o <<"}">>,  \* "\section*{", "\u53c2\u8003\u6587\u732e", "References", "}"
                       <<"\\", "b", "e", "g", "i", "n", "{", "e", "n", "u", "m", "e", "r", "a", "t", "e", "}">>>> \o items \o <<<<"\\", "e", "n", "d", "{", "e", "n", "u", "m", "e", "r", "a", "t", "e", "}">>, <<>>>>  \* "\begin{enumerate}", "\end{enumerate}"
                ELSE <<>>)
            \o <<<<"\\", "e", "n", "d", "{", "d", "o", "c", "u", "m", "e", "n", "t", "}">>>>)  \* "\end{document}"

\* ---- The steps of generate_latex after the document class ----
\* The lines of the builders, in order, or the first exception raised
RECURSIVE first_raised(_, _)
first_raised(results, i) ==
    IF i > Len(results) THEN Returns([k \in 1..Len(results) |-> results[k].value])
    ELSE IF results[i].raised # "" THEN results[i]
    ELSE first_raised(results, i + 1)

\* Lines 385-396: geometry, fonts, spacing and the fixed packages
BuildPackages ==
    /\ pc = "packages"
    /\ LET built == first_raised(<<build_geometry(tex_rules),
                                   build_font_config(tex_rules, is_chinese),
                                   build_spacing_config(tex_rules)>>, 1)
       IN  Step(IF built.raised # "" THEN built
                ELSE Returns(<<<<"%", " ", "=", "=", "=", " ", "P", "a", "c", "k", "a", "g", "e", "s", " ", "=", "=", "=">>>> \o built.value  \* "% === Packages ==="
                             \o <<<<>>, <<"\\", "u", "s", "e", "p", "a", "c", "k", "a", "g", "e", "{", "g", "r", "a", "p", "h", "i", "c", "x", "}">>,  \* "\usepackage{graphicx}"
                                  <<"\\", "u", "s", "e", "p", "a", "c", "k", "a", "g", "e", "{", "b", "o", "o", "k", "t", "a", "b", "s", "}", " ", " ", "%", " ", "F", "o", "r", " ", "t", "h", "r", "e", "e", "-", "l", "i", "n", "e", " ", "t", "a", "b", "l", "e", "s">>,  \* "\usepackage{booktabs}  % For three-line tables"
                                  <<"\\", "u", "s", "e", "p", "a", "c", "k", "a", "g", "e", "{", "a", "m", "s", "m", "a", "t", "h", ",", "a", "m", "s", "s", "y", "m", "b", "}">>, <<"\\", "u", "s", "e", "p", "a", "c", "k", "a", "g", "e", "{", "h", "y", "p", "e", "r", "r", "e", "f", "}">>,  \* "\usepackage{amsmath,amssymb}", "\usepackage{hyperref}"
                                  <<"\\", "u", "s", "e", "p", "a", "c", "k", "a", "g", "e", "{", "c", "a", "p", "t", "i", "o", "n", "}">>, <<>>>>),  \* "\usepackage{caption}"
                "headings")
    /\ UNCHANGED <<tex_content, tex_rules, is_chinese>>
    /\ UNCHANGED <<classifyVars, paperVars, resolveVars, formatVars, escapeVars, citationVars, paraVars, analyzeVars, runVars, pageVars, heapVars, markdownVars>>

\* Lines 398-401
BuildHeadingConfig ==
    /\ pc = "headings"
    /\ LET built == build_heading_config(tex_rules)
       IN  Step(IF built.raised # "" THEN built
                ELSE Returns(<<<<"%", " ", "=", "=", "=", " ", "H", "e", "a", "d", "i", "n", "g", " ", "F", "o", "r", "m", "a", "t", "t", "i", "n", "g", " ", "=", "=", "=">>, built.value, <<>>>>),  \* "% === Heading Formatting ==="
                "header")
    /\ UNCHANGED <<tex_content, tex_rules, is_chinese>>
    /\ UNCHANGED <<classifyVars, paperVars, resolveVars, formatVars, escapeVars, citationVars, paraVars, analyzeVars, runVars, pageVars, heapVars, markdownVars>>

\* Lines 403-406
BuildHeaderFooter ==
    /\ pc = "header"
    /\ LET built == build_header_footer(tex_rules)
       IN  Step(IF built.raised # "" THEN built
                ELSE Returns(<<<<"%", " ", "=", "=", "=", " ", "H", "e", "a", "d", "e", "r", "/", "F", "o", "o", "t", "e", "r", " ", "=", "=", "=">>, built.value, <<>>>>),  \* "% === Header/Footer ==="
                "indent")
    /\ UNCHANGED <<tex_content, tex_rules, is_chinese>>
    /\ UNCHANGED <<classifyVars, paperVars, resolveVars, formatVars, escapeVars, citationVars, paraVars, analyzeVars, runVars, pageVars, heapVars, markdownVars>>

\* Lines 408-411
BuildIndentConfig ==
    /\ pc = "indent"
    /\ LET built == build_indent_config(tex_rules, is_chinese)
       IN  Step(IF built.raised # "" THEN built
                ELSE Returns(<<<<"%", " ", "=", "=", "=", " ", "P", "a", "r", "a", "g", "r", "a", "p", "h", " ", "F", "o", "r", "m", "a", "t", "t", "i", "n", "g", " ", "=", "=", "=">>, built.value, <<>>>>),  \* "% === Paragraph Formatting ==="
                "citation")
    /\ UNCHANGED <<tex_content, tex_rules, is_chinese>>
    /\ UNCHANGED <<classifyVars, paperVars, resolveVars, formatVars, escapeVars, citationVars, paraVars, analyzeVars, runVars, pageVars, heapVars, markdownVars>>

\* Lines 413-439
CitationPackage ==
    /\ pc = "citation"
    /\ Step(citation_package(tex_rules), "body")
    /\ UNCHANGED <<tex_content, tex_rules, is_chinese>>
    /\ UNCHANGED <<classifyVars, paperVars, resolveVars, formatVars, escapeVars, citationVars, paraVars, analyzeVars, runVars, pageVars, heapVars, markdownVars>>

\* Lines 441-501: the body, and the lines written to the file
RenderBody ==
    /\ pc = "body"
    /\ Step(document_body(tex_content, is_chinese), "done")
    /\ UNCHANGED <<tex_content, tex_rules, is_chinese>>
    /\ UNCHANGED <<classifyVars, paperVars, resolveVars, formatVars, escapeVars, citationVars, paraVars, analyzeVars, runVars, pageVars, heapVars, markdownVars>>

NextLatex ==
    \/ HasChineseContent \/ BuildDocumentClass \/ BuildPackages \/ BuildHeadingConfig
    \/ BuildHeaderFooter \/ BuildIndentConfig \/ CitationPackage \/ RenderBody

\* ---- Whole runs of generate_latex: Content Trees and Style-Rule Models ----
\* A role as analyze_document writes it: every field present, the ones not
\* observed with value null
ExtractedRole(observed) ==
    JDict(observed @@
          [count |-> JNum(<<"1">>), font_names |-> JNull, font_sizes_pt |-> JNull,  \* "1"
           bold |-> JNull, italic |-> JNull, alignment |-> JNull, line_spacing |-> JNull,
           line_spacing_rule |-> JNull, first_line_indent_cm |-> JNull,
           space_before_pt |-> JNull, space_after_pt |-> JNull,
           sample_text |-> JStr(<<"t", "e", "x", "t">>)])  \* "text"

\* A body role with everything observed
FullBody ==
    ExtractedRole([font_names |-> JList(<<JStr(<<"U5B8B", "U4F53">>), JStr(<<"T", "i", "m", "e", "s", " ", "N", "e", "w", " ", "R", "o", "m", "a", "n">>)>>),  \* "\u5b8b\u4f53", "Times New Roman"
                   font_sizes_pt |-> JList(<<JNum(<<"1", "2", ".", "0">>)>>),  \* "12.0"
                   bold |-> JBool(FALSE), italic |-> JBool(FALSE),
                   alignment |-> JStr(<<"j", "u", "s", "t", "i", "f", "y">>), line_spacing |-> JNum(<<"1", ".", "5">>),  \* "justify", "1.5"
                   first_line_indent_cm |-> JNum(<<"0", ".", "7", "4">>),  \* "0.74"
                   space_before_pt |-> JNum(<<"6", ".", "0">>), space_after_pt |-> JNum(<<"6", ".", "0">>)])  \* "6.0", "6.0"

FullHeading ==
    ExtractedRole([font_names |-> JList(<<JStr(<<"U9ED1", "U4F53">>)>>),  \* "\u9ed1\u4f53"
                   font_sizes_pt |-> JList(<<JNum(<<"1", "6", ".", "0">>)>>),  \* "16.0"
                   bold |-> JBool(TRUE), italic |-> JBool(FALSE),
                   alignment |-> JStr(<<"c", "e", "n", "t", "e", "r">>),  \* "center"
                   space_before_pt |-> JNum(<<"2", "4", ".", "0">>), space_after_pt |-> JNum(<<"1", "2", ".", "0">>)])  \* "24.0", "12.0"

FullLayout ==
    JList(<<JDict([paper_size |-> JStr(<<"A", "4">>), orientation |-> JStr(<<"p", "o", "r", "t", "r", "a", "i", "t">>),  \* "A4", "portrait"
                   page_width_cm |-> JNum(<<"2", "1", ".", "0">>), page_height_cm |-> JNum(<<"2", "9", ".", "7">>),  \* "21.0", "29.7"
                   margins |-> JDict([top_cm |-> JNum(<<"2", ".", "5", "4">>), bottom_cm |-> JNum(<<"2", ".", "5", "4">>),  \* "2.54", "2.54"
                                      left_cm |-> JNum(<<"3", ".", "1", "7">>), right_cm |-> JNum(<<"3", ".", "1", "7">>)]),  \* "3.17", "3.17"
                   header_text |-> JStr(<<"J", "o", "u", "r", "n", "a", "l", " ", "&", " ", "C", "o">>), footer_text |-> JStr(<<>>)])>>)  \* "Journal & Co"

\* The labels of the citation style: the five detect_citation_style writes,
\* and labels written by hand in either case
CitationLabels ==
    { style_map[name] : name \in DOMAIN style_map }
    \cup { <<"u", "n", "k", "n", "o", "w", "n">>, <<>>, <<"G", "B", "/", "T", " ", "7", "7", "1", "4", " ", "a", "u", "t", "h", "o", "r", "-", "y", "e", "a", "r">>, <<"g", "b", "/", "t", " ", "7", "7", "1", "4", " ", "n", "u", "m", "e", "r", "i", "c">>,  \* "unknown", "", "GB/T 7714 author-year", "gb/t 7714 numeric"
           <<"g", "b", "/", "t", " ", "7", "7", "1", "4", " ", "a", "u", "t", "h", "o", "r", "-", "y", "e", "a", "r">>, <<"G", "B", "7", "7", "1", "4", "-", "2", "0", "1", "5">>, <<"I", "E", "E", "E">>, <<"i", "e", "e", "e", " ", "n", "u", "m", "e", "r", "i", "c">>,  \* "gb/t 7714 author-year", "GB7714-2015", "IEEE", "ieee numeric"
           <<"A", "P", "A", " ", "7", "t", "h", " ", "a", "u", "t", "h", "o", "r", "-", "y", "e", "a", "r">>, <<"V", "a", "n", "c", "o", "u", "v", "e", "r">>, <<"A", "u", "t", "h", "o", "r", "-", "Y", "e", "a", "r">>, <<"N", "U", "M", "E", "R", "I", "C">>, <<"H", "a", "r", "v", "a", "r", "d">> }  \* "APA 7th author-year", "Vancouver", "Author-Year", "NUMERIC", "Harvard"

RulesWith(body, label) ==
    JDict([page_layout |-> FullLayout,
           paragraph_formatting |-> JDict([body |-> body, heading_1 |-> FullHeading]),
           citation_style |-> JDict([detected_style |-> label])])

CitationRules == { RulesWith(FullBody, JStr(label)) : label \in CitationLabels }

\* Content Trees: nothing, Latin, and CJK
LatexContents ==
    { JDict(EmptyDict),
      JDict([title |-> JStr(<<"A", " ", "T", "i", "t", "l", "e">>), authors |-> JList(<<JStr(<<"A", ".", " ", "A", "u", "t", "h", "o", "r">>), JStr(<<"B", ".", " ", "A", "u", "t", "h", "o", "r">>)>>),  \* "A Title", "A. Author", "B. Author"
             abstract |-> JStr(<<"5", "0", "%", " ", "o", "f", " ", "i", "t">>), keywords |-> JList(<<JStr(<<"o", "n", "e">>), JStr(<<"t", "w", "o">>)>>),  \* "50% of it", "one", "two"
             sections |-> JList(<<Section(<<"I", "n", "t", "r", "o">>, <<<<"t", "e", "x", "t">>, <<" ", " ">>>>,  \* "Intro", "text", "  "
                                      <<Section(<<"D", "a", "t", "a">>, <<<<"a", "_", "b">>>>, <<>>)>>)>>),  \* "Data", "a_b"
             acknowledgments |-> JStr(<<"T", "h", "a", "n", "k", "s">>),  \* "Thanks"
             references |-> JList(<<JStr(<<"[", "1", "]", " ", "F", "i", "r", "s", "t">>), JStr(<<"S", "e", "c", "o", "n", "d">>)>>)]),  \* "[1] First", "Second"
      JDict([title |-> JStr(<<"U8868", " ", "o", "f", " ", "a", " ", "t", "i", "t", "l", "e">>), keywords |-> JList(<<JStr(<<"U8BCD">>), JStr(<<"t", "w", "o">>)>>),  \* "\u8868 of a title", "\u8bcd", "two"
             sections |-> JList(<<Section(<<"U65B9", "U6CD5">>, <<<<"t", "e", "x", "t">>>>, <<>>)>>),  \* "\u65b9\u6cd5", "text"
             acknowledgments |-> JStr(<<"T", "h", "a", "n", "k", "s">>),  \* "Thanks"
             references |-> JList(<<JStr(<<"[", "1", "2", "]", " ", " ", "U5F20", "U4E09", ".", " ", "2", "0", "2", "0">>)>>)]) }  \* "[12]  \u5f20\u4e09. 2020"

\* A record without one key, and with one key null
Without(d, k) == JDict([x \in DOMAIN d.dict \ {k} |-> d.dict[x]])
WithNull(d, k) == JDict([x \in DOMAIN d.dict |-> IF x = k THEN JNull ELSE d.dict[x]])

\* Style-Rule Models with optional fields absent or null: the empty model,
\* the full one with each top-level field, each field of the page layout and
\* the label absent or null, and body and heading roles as the extractor
\* writes them with none, one or all but one of the fields observed
FullRules == RulesWith(FullBody, JStr(<<"I", "E", "E", "E">>))  \* "IEEE"
RuleKeys == {"page_layout", "paragraph_formatting", "citation_style"}
LayoutKeys == {"paper_size", "margins", "header_text", "footer_text"}
RoleKeys == {"font_names", "font_sizes_pt", "bold", "italic", "alignment", "line_spacing",
             "first_line_indent_cm", "space_before_pt", "space_after_pt"}
WithLayout(sec) == JDict([FullRules.dict EXCEPT !["page_layout"] = JList(<<sec>>)])
WithRoles(body, heading) ==
    JDict([FullRules.dict EXCEPT !["paragraph_formatting"] = JDict([body |-> body, heading_1 |-> heading])])
OptionalRules ==
    { JDict(EmptyDict), FullRules }
    \cup { Without(FullRules, k) : k \in RuleKeys } \cup { WithNull(FullRules, k) : k \in RuleKeys }
    \cup { WithLayout(Without(FullLayout.list[1], k)) : k \in LayoutKeys }
    \cup { WithLayout(WithNull(FullLayout.list[1], k)) : k \in LayoutKeys }
    \cup { RulesWith(FullBody, JNull),
           JDict([FullRules.dict EXCEPT !["citation_style"] = JDict(EmptyDict)]),
           JDict([FullRules.dict EXCEPT !["paragraph_formatting"] = JDict(EmptyDict)]),
           WithRoles(ExtractedRole(EmptyDict), FullHeading),
           WithRoles(FullBody, ExtractedRole(EmptyDict)),
           WithRoles(ExtractedRole([font_names |-> JList(<<JStr(<<"A", "r", "i", "a", "l">>)>>)]),  \* "Arial"
                     ExtractedRole([bold |-> JBool(TRUE), italic |-> JBool(FALSE)])) }
    \cup { WithRoles(WithNull(FullBody, k), FullHeading) : k \in RoleKeys }
    \cup { WithRoles(FullBody, WithNull(FullHeading, k)) : k \in RoleKeys }
    \cup { WithRoles(FullBody, Without(FullHeading, k)) : k \in {"space_before_pt", "space_after_pt", "bold"} }

\* Content Trees with optional fields absent or null
FullContent ==
    JDict([title |-> JStr(<<"A", " ", "T", "i", "t", "l", "e">>), authors |-> JList(<<JStr(<<"A", ".", " ", "A", "u", "t", "h", "o", "r">>)>>),  \* "A Title", "A. Author"
           abstract |-> JStr(<<"a", "b", "s", "t", "r", "a", "c", "t">>), keywords |-> JList(<<JStr(<<"o", "n", "e">>)>>),  \* "abstract", "one"
           sections |-> JList(<<Section(<<"I", "n", "t", "r", "o">>, <<<<"t", "e", "x", "t">>>>, <<>>)>>),  \* "Intro", "text"
           acknowledgments |-> JStr(<<"T", "h", "a", "n", "k", "s">>), references |-> JList(<<JStr(<<"[", "1", "]", " ", "F", "i", "r", "s", "t">>)>>)])  \* "Thanks", "[1] First"
ContentKeys == {"title", "authors", "abstract", "keywords", "sections", "acknowledgments", "references"}
SectionKeys == {"heading", "level", "content", "subsections"}
OptionalContents ==
    { Without(FullContent, k) : k \in ContentKeys } \cup { WithNull(FullContent, k) : k \in ContentKeys }
    \cup { JDict([FullContent.dict EXCEPT !["sections"] = JList(<<Without(Section(<<"I", "n", "t", "r", "o">>, <<<<"t", "e", "x", "t">>>>, <<>>), k)>>)]) :  \* "Intro", "text"
             k \in SectionKeys }
    \cup { JDict([FullContent.dict EXCEPT !["sections"] = JList(<<WithNull(Section(<<"I", "n", "t", "r", "o">>, <<<<"t", "e", "x", "t">>>>, <<>>), k)>>)]) :  \* "Intro", "text"
             k \in SectionKeys }

InitLatex ==
    /\ pc = "start"
    /\ \/ tex_content \in LatexContents /\ tex_rules \in CitationRules \cup OptionalRules
       \/ tex_content \in OptionalContents /\ tex_rules = FullRules
    /\ is_chinese = FALSE
    /\ tex_lines = <<>>
    /\ tex_error = ""
    /\ IdleClassify /\ IdlePaper /\ IdleResolve /\ IdleFormat /\ IdleEscape /\ IdleCitation /\ IdlePara /\ IdleAnalyze /\ IdleRun /\ IdlePage /\ IdleHeap /\ IdleMarkdown

SpecLatex == InitLatex /\ [][NextLatex]_vars

\* ---- Claims on the citation package ----
\* The label of the model, when it is a text
CitationLabel == JGet(JGet(tex_rules, "citation_style", JDict(EmptyDict)), "detected_style", JStr(<<>>))

\* The configuration of a label by substring tests that ignore case, in the
\* priority order GB/T 7714, IEEE, APA, Vancouver, author-year, numeric;
\* "" when nothing matches
MatchedIgnoringCase(label) ==
    LET has(sub) == Contains(lower(label), lower(sub))
    IN  IF has(<<"G", "B", "/", "T", " ", "7", "7", "1", "4">>) \/ has(<<"g", "b", "7", "7", "1", "4">>)  \* "GB/T 7714", "gb7714"
        THEN (IF has(<<"a", "u", "t", "h", "o", "r", "-", "y", "e", "a", "r">>) THEN "gb7714_authoryear" ELSE "gb7714_numeric")  \* "author-year"
        ELSE IF has(<<"I", "E", "E", "E">>) THEN "ieee"  \* "IEEE"
        ELSE IF has(<<"A", "P", "A">>) THEN "apa"  \* "APA"
        ELSE IF has(<<"V", "a", "n", "c", "o", "u", "v", "e", "r">>) THEN "vancouver"  \* "Vancouver"
        ELSE IF has(<<"a", "u", "t", "h", "o", "r", "-", "y", "e", "a", "r">>) THEN "author_year"  \* "author-year"
        ELSE IF has(<<"n", "u", "m", "e", "r", "i", "c">>) THEN "numeric"  \* "numeric"
        ELSE ""

\* The package line of the configuration, the default for ""
PackageOf(key) ==
    IF key = "" THEN <<"\\", "u", "s", "e", "p", "a", "c", "k", "a", "g", "e", "[", "n", "u", "m", "b", "e", "r", "s", ",", "s", "o", "r", "t", "&", "c", "o", "m", "p", "r", "e", "s", "s", "]", "{", "n", "a", "t", "b", "i", "b", "}">>  \* "\usepackage[numbers,sort&compress]{natbib}"
    ELSE CITATION_PACKAGES[key].package

\* The citation step has just appended its comment, its package and an
\* empty line
CitationDone == pc = "body"
PackageLine == tex_lines[Len(tex_lines) - 1]

\* C18: the package emitted is the one of the first configuration, in the
\* priority order GB/T 7714 (author-year or numeric), IEEE, APA, Vancouver,
\* author-year, numeric, that the label matches as a substring ignoring
\* case, and the default numeric natbib when it matches none
C18_PackageByLabel ==
    CitationDone => PackageLine = PackageOf(MatchedIgnoringCase(CitationLabel.str))

\* A label that writes "GB/T 7714" in these very letters, or not at all
GBTAsWritten ==
    Contains(lower(CitationLabel.str), <<"g", "b", "/", "t", " ", "7", "7", "1", "4">>) => Contains(CitationLabel.str, <<"G", "B", "/", "T", " ", "7", "7", "1", "4">>)  \* "gb/t 7714", "GB/T 7714"

\* The package follows the priority order ignoring case for every label that
\* has "GB/T 7714" in upper case or not at all
C18_PackageByLabelUpperGBT ==
    CitationDone /\ GBTAsWritten => PackageLine = PackageOf(MatchedIgnoringCase(CitationLabel.str))

\* ---- Claims on optional fields ----
\* No value of a document is null
RECURSIVE NoNull(_)
NoNull(v) ==
    IF IsNull(v) THEN FALSE
    ELSE IF IsList(v) THEN \A i \in 1..Len(v.list) : NoNull(v.list[i])
    ELSE IF IsDict(v) THEN \A k \in DOMAIN v.dict : NoNull(v.dict[k])
    ELSE TRUE

\* C19: a missing optional field is never an error: with any optional
\* fields of the Content Tree and the Style-Rule Model absent or null,
\* generate_latex raises no exception
C19_MissingFieldNeverAnError == pc # "raised" /\ tex_error = ""

\* An absent field is never an error: a run over documents without a null
\* raises nothing
C19_AbsentFieldNeverAnError ==
    NoNull(tex_content) /\ NoNull(tex_rules) => pc # "raised" /\ tex_error = ""

\* The model as the extractor writes it, the body role with nothing observed:
\* the run ends with TypeError at the fonts
C19_ExtractedModelRaises ==
    tex_rules = WithRoles(ExtractedRole(EmptyDict), FullHeading) /\ pc \notin {"start", "class", "packages"}
        => pc = "raised" /\ tex_error = "TypeError"

(***************************************************************************)
(* Role-Format Resolver on the heap: get_role_format with the dicts it     *)
(* reads and writes as objects with an identity. heap[i] is the dict with  *)
(* identity i; a name bound to a dict holds its identity, 0 for None.      *)
(* Lists and scalars are values: no statement of either backend writes to  *)
(* a list of its inputs.                                                   *)
(***************************************************************************)
\* fmt = defaults: the name bound to the defaults record when there is one
new_fmt_sharing_defaults(heap_in, defaults_ref) ==
    IF defaults_ref # 0 /\ DOMAIN heap_in[defaults_ref] # {}
    THEN [heap |-> heap_in, ref |-> defaults_ref]
    ELSE [heap |-> Append(heap_in, EmptyDict), ref |-> Len(heap_in) + 1]

\* Line 251, fmt = {}: a new dict
new_fmt(heap_in, defaults_ref) ==
    [heap |-> Append(heap_in, EmptyDict), ref |-> Len(heap_in) + 1]

\* target.update(source): the items of source written into target
dict_update(heap_in, target, source) ==
    [heap_in EXCEPT ![target] =
        [k \in DOMAIN heap_in[target] \cup DOMAIN heap_in[source] |->
            IF k \in DOMAIN heap_in[source] THEN heap_in[source][k] ELSE heap_in[target][k]]]

\* Lines 258-262: fmt[key] = role_data[key] for each key of the list whose
\* value is not None
copy_keys(heap_in, target, role_data_ref) ==
    LET role_data == heap_in[role_data_ref]
        taken == {k \in FormatKeys : Get(role_data, k) # None}
    IN  [heap_in EXCEPT ![target] =
            [k \in DOMAIN heap_in[target] \cup taken |->
                IF k \in taken THEN role_data[k] ELSE heap_in[target][k]]]

\* get_role_format(style_rules, role, defaults) on the heap: the heap it
\* leaves and the identity it returns
get_role_format_on(heap_in, para_fmt, role_in, defaults_ref) ==
    LET made == new_fmt(heap_in, defaults_ref)
        based == IF defaults_ref # 0 /\ DOMAIN heap_in[defaults_ref] # {}
                 THEN dict_update(made.heap, made.ref, defaults_ref)
                 ELSE made.heap
    IN  [heap |-> IF role_in \in DOMAIN para_fmt
                  THEN copy_keys(based, made.ref, para_fmt[role_in])
                  ELSE based,
         ref |-> made.ref]

\* The roles format_document resolves here: two with a default record and
\* possibly a rule, and one with neither
HeapRoles == {"body", "heading_1", "heading_4"}
MaxCalls == 3

\* The rules of the model: none, or a record with no, some or all of the
\* varied fields, null among them
HeapRules ==
    { RoleData([k \in VariedKeys |-> c]) : c \in FieldChoices }
    \cup { RoleData([k \in VariedKeys |-> IF k = "bold" THEN "low" ELSE "absent"]),
           RoleData([k \in VariedKeys |-> IF k = "font_names" THEN "high" ELSE "null"]) }

\* Line 390 and the caller's model: the default records at 1 and 2, the
\* rules of the model after them
InitHeap ==
    /\ pc = "start"
    /\ defaults_at = [body |-> 1, heading_1 |-> 2, heading_4 |-> 0]
    /\ \E body_rule \in HeapRules, heading_rule \in HeapRules, given \in SUBSET {"body", "heading_1"} :
          LET rules == (IF "body" \in given THEN <<body_rule>> ELSE <<>>)
                       \o (IF "heading_1" \in given THEN <<heading_rule>> ELSE <<>>)
          IN  /\ heap = <<build_default_formats["body"], build_default_formats["heading_1"]>> \o rules
              /\ rules_at = [r \in given |->
                                IF r = "body" \/ "body" \notin given THEN 3 ELSE 4]
    /\ heap_before = heap
    /\ fmt_refs = <<>>
    /\ IdleClassify /\ IdlePaper /\ IdleResolve /\ IdleFormat /\ IdleEscape /\ IdleCitation /\ IdlePara /\ IdleAnalyze /\ IdleRun /\ IdlePage /\ IdleLatex /\ IdleMarkdown

\* Lines 372-440: fmt = get_role_format(style_rules, role, defaults.get(role))
GetRoleFormat ==
    /\ Len(fmt_refs) < MaxCalls
    /\ \E role_in \in HeapRoles :
          LET result == get_role_format_on(heap, rules_at, role_in, defaults_at[role_in])
          IN  /\ heap' = result.heap
              /\ fmt_refs' = Append(fmt_refs, [role |-> role_in, ref |-> result.ref])
    /\ pc' = "resolved"
    /\ UNCHANGED <<heap_before, rules_at, defaults_at>>
    /\ UNCHANGED <<classifyVars, paperVars, resolveVars, formatVars, escapeVars, citationVars, paraVars, analyzeVars, runVars, pageVars, latexVars, markdownVars>>

NextHeap == GetRoleFormat
SpecHeap == InitHeap /\ [][NextHeap]_vars

\* ---- Claims on the inputs of the backends ----
\* The dicts of the Style-Rule Model and of the defaults
InputRefs == 1..Len(heap_before)

\* The record a call returned is the one the resolver computes from the
\* dicts as they were before the first call
ResolvedFromInputs(call) ==
    heap[call.ref] =
        get_role_format([paragraph_formatting |-> [r \in DOMAIN rules_at |-> heap_before[rules_at[r]]]],
                        call.role,
                        IF defaults_at[call.role] = 0 THEN EmptyDict
                        ELSE heap_before[defaults_at[call.role]])

\* C20: get_role_format leaves the defaults record and the records of the
\* Style-Rule Model as they were: after any number of calls every dict of
\* the inputs equals what it was before the first, and every call returns
\* what it would have returned first, whatever was resolved before it
C20_InputsNotMutated ==
    /\ \A i \in InputRefs : heap[i] = heap_before[i]
    /\ \A n \in 1..Len(fmt_refs) :
          /\ fmt_refs[n].ref \notin InputRefs
          /\ ResolvedFromInputs(fmt_refs[n])

\* Three calls, the same role twice, over a rule that replaces a default field
C20_Witness ==
    /\ Len(fmt_refs) = MaxCalls
    /\ fmt_refs[1].role = "body" /\ fmt_refs[3].role = "body"
    /\ "body" \in DOMAIN rules_at
    /\ heap[fmt_refs[1].ref]["font_names"] # heap[defaults_at["body"]]["font_names"]
    /\ heap[fmt_refs[3].ref] = heap[fmt_refs[1].ref]
    /\ fmt_refs[3].ref # fmt_refs[1].ref

\* No step of generate_latex assigns to the Content Tree or to the
\* Style-Rule Model
C20_LatexInputsUnchanged == [][tex_content' = tex_content /\ tex_rules' = tex_rules]_vars

\* ---- Claims on unspecified and zero lengths ----
\* The four lengths of the record, with the paragraph field each is read from
LengthFields ==
    { <<"space_before_pt", "space_before">>, <<"space_after_pt", "space_after">>,
      <<"first_line_indent_cm", "first_line_indent">>, <<"left_indent_cm", "left_indent">> }

\* C21: a space-before, space-after, first-line indent or left indent the
\* paragraph does not specify is recorded as null, and one it specifies as
\* zero is recorded as the number 0, not as null
C21_ZeroDistinctFromUnset ==
    pc = "done" =>
        \A f \in LengthFields :
            /\ para[f[2]] = NoLength => info[f[1]] = None
            /\ para[f[2]] = 0 => info[f[1]] # None /\ info[f[1]] = <<"0.0">>

\* What the record holds: null for a length that is unspecified or zero, the
\* number for any other length
C21_ZeroRecordedAsNull ==
    pc = "done" =>
        \A f \in LengthFields :
            info[f[1]] = None <=> para[f[2]] \in {NoLength, 0}

\* ---- Page setup from a layout of several sections ----
\* A section record as analyze_page_layout writes it (lines 65-79): every
\* length present, in hundredths of a centimetre
ExtractedSection(index, size, orientation, margin, gutter, distance) ==
    [section_index |-> index, page_width_cm |-> size[1], page_height_cm |-> size[2],
     orientation |-> orientation,
     margins |-> [top_cm |-> margin, bottom_cm |-> margin, left_cm |-> margin + 63,
                  right_cm |-> margin + 63],
     gutter_cm |-> gutter, header_distance_cm |-> distance,
     footer_distance_cm |-> distance + 50]

\* First sections: A4 or Letter, either orientation, margins, gutter and
\* distances zero or not
FirstSections ==
    { ExtractedSection(0, size, o, m, g, d) :
        size \in {<<2100, 2970>>, <<2159, 2794>>, <<2970, 2100>>},
        o \in {"portrait", "landscape"}, m \in {0, 254}, g \in {0, 100}, d \in {0, 125} }

\* A later section, with no length in common with a first one
LaterSections == { ExtractedSection(1, <<1480, 1850>>, "portrait", 150, 50, 80) }

InitPageFirst ==
    /\ pc = "start"
    /\ \E first \in FirstSections :
          \/ layout = [kind |-> "list", items |-> <<first>>]
          \/ \E later \in LaterSections : layout = [kind |-> "list", items |-> <<first, later>>]
    /\ section = NewSection
    /\ section_once = <<>>
    /\ IdleClassify /\ IdlePaper /\ IdleResolve /\ IdleFormat /\ IdleEscape /\ IdleCitation /\ IdlePara /\ IdleAnalyze /\ IdleRun /\ IdleLatex /\ IdleHeap /\ IdleMarkdown

SpecPageFirst == InitPageFirst /\ [][NextPage]_vars

\* ---- Claims on the first section ----
FirstInfo == layout.items[1]

\* Width and height as the section gives them, turned when a landscape
\* section gives the width smaller
WidthApplied ==
    IF FirstInfo.orientation = "landscape" /\ FirstInfo.page_width_cm < FirstInfo.page_height_cm
    THEN Cm(FirstInfo.page_height_cm) ELSE Cm(FirstInfo.page_width_cm)
HeightApplied ==
    IF FirstInfo.orientation = "landscape" /\ FirstInfo.page_width_cm < FirstInfo.page_height_cm
    THEN Cm(FirstInfo.page_width_cm) ELSE Cm(FirstInfo.page_height_cm)

\* Page size and margins of the output are those of the first section
SizeAndMarginsApplied ==
    /\ section.page_width = WidthApplied
    /\ section.page_height = HeightApplied
    /\ section.top_margin = Cm(FirstInfo.margins.top_cm)
    /\ section.bottom_margin = Cm(FirstInfo.margins.bottom_cm)
    /\ section.left_margin = Cm(FirstInfo.margins.left_cm)
    /\ section.right_margin = Cm(FirstInfo.margins.right_cm)

\* C22: after page setup the output has the page width, page height, four
\* margins, gutter, header distance and footer distance of the first
\* section of the layout, and nothing of a later section
C22_FirstSectionApplied ==
    pc = "once" =>
        /\ SizeAndMarginsApplied
        /\ section.gutter = Cm(FirstInfo.gutter_cm)
        /\ section.header_distance = Cm(FirstInfo.header_distance_cm)
        /\ section.footer_distance = Cm(FirstInfo.footer_distance_cm)

\* What page setup applies: size and margins of the first section, its
\* header and footer distances when they are not zero, and never its gutter
C22_FirstSectionWithoutGutter ==
    pc = "once" =>
        /\ SizeAndMarginsApplied
        /\ section.gutter = NewSection.gutter
        /\ section.header_distance =
              IF FirstInfo.header_distance_cm # 0 THEN Cm(FirstInfo.header_distance_cm)
              ELSE NewSection.header_distance
        /\ section.footer_distance = Cm(FirstInfo.footer_distance_cm)

\* ---- Claims on the heading configuration ----
\* The heading step has appended its comment, its configuration and an
\* empty line
HeadingsDone == pc \in {"header", "indent", "citation", "body", "done"}
HeadingConfig == tex_lines[15]

\* The role of a heading level in the model, {} when it has none
HeadingRole(level) ==
    JGet(JGet(tex_rules, "paragraph_formatting", JDict(EmptyDict)),
         heading_role_name(level), JDict(EmptyDict))

\* The value the model has for a field of the role: none when the key is
\* absent or null
HasValue(role_in, k) == k \in DOMAIN role_in.dict /\ ~IsNull(role_in.dict[k])
PointsOr(role_in, k, default) == IF HasValue(role_in, k) THEN role_in.dict[k].num ELSE default

\* The \titlespacing line of a level with the given lengths
TitleSpacing(level, before, after) ==
    <<"\\", "t", "i", "t", "l", "e", "s", "p", "a", "c", "i", "n", "g", "*", "{", "\\">> \o cmd_of(level) \o <<"}", "{", "0", "p", "t", "}", "{">> \o before \o <<"p", "t", "}", "{">> \o after \o <<"p", "t", "}">>  \* "\titlespacing*{\", "}{0pt}{", "pt}{", "pt}"

\* The \titleformat line of the level starts its font with an optional size
\* command and then the given weight
TitleWeight(level, weight) ==
    \E size \in {<<>>} \cup {size_map[k][2] : k \in 1..Len(size_map)} :
        Contains(HeadingConfig, <<"\\", "t", "i", "t", "l", "e", "f", "o", "r", "m", "a", "t", "{", "\\">> \o cmd_of(level) \o <<"}", "{">> \o size \o weight)  \* "\titleformat{\", "}{"

\* C23: for each heading level 1 to 3 the \titlespacing line has the role's
\* space_before_pt and space_after_pt as point values, and 12pt and 6pt
\* when the model has no value for them, the key absent or null; a heading
\* without an extracted bold value is bold
C23_HeadingSpacingDefaults ==
    HeadingsDone =>
        \A level \in 1..3 :
            /\ Contains(HeadingConfig,
                        TitleSpacing(level, PointsOr(HeadingRole(level), "space_before_pt", <<"1", "2">>),  \* "12"
                                     PointsOr(HeadingRole(level), "space_after_pt", <<"6">>)))  \* "6"
            /\ ~HasValue(HeadingRole(level), "bold") => TitleWeight(level, <<"\\", "b", "f", "s", "e", "r", "i", "e", "s">>)  \* "\bfseries"

\* What is emitted: the defaults for an absent key, and for a null the text
\* None as the length and the normal weight
C23_NullSpacingIsNone ==
    HeadingsDone =>
        \A level \in 1..3 :
            LET role_in == HeadingRole(level)
                length(k, default) ==
                    IF k \notin DOMAIN role_in.dict THEN default
                    ELSE IF IsNull(role_in.dict[k]) THEN <<"N", "o", "n", "e">> ELSE role_in.dict[k].num  \* "None"
            IN  /\ Contains(HeadingConfig,
                            TitleSpacing(level, length("space_before_pt", <<"1", "2">>),  \* "12"
                                         length("space_after_pt", <<"6">>)))  \* "6"
                /\ "bold" \notin DOMAIN role_in.dict => TitleWeight(level, <<"\\", "b", "f", "s", "e", "r", "i", "e", "s">>)  \* "\bfseries"
                /\ "bold" \in DOMAIN role_in.dict /\ IsNull(role_in.dict["bold"])
                      => TitleWeight(level, <<"\\", "n", "o", "r", "m", "a", "l", "f", "o", "n", "t">>)  \* "\normalfont"

\* ---- The reference list ----
\* Reference texts: every text of at most MaxRefLen characters over a
\* bracket pair, a digit, a blank and a letter, and lists of two texts
MaxRefLen == 4
RefAlphabet == {"[", "]", "7", " ", "a"}
RefTexts == UNION {[1..n -> RefAlphabet] : n \in 0..MaxRefLen}
RefLists ==
    { <<JStr(t)>> : t \in RefTexts }
    \cup { <<JStr(<<"[", "2", "]", " ", "B", " ", "&", " ", "C">>), JStr(<<"[", "1", "]", " ", "A", "_", "1">>)>>, <<JStr(<<"2", "0", "2", "0", " ", "r", "e", "p", "o", "r", "t">>), JStr(<<"[", "1", "0", "]", " ", " ", "Z">>)>>,  \* "[2] B & C", "[1] A_1", "2020 report", "[10]  Z"
           <<JStr(<<"[", "3", "]">>), JStr(<<"[", "a", "]", " ", "b">>), JStr(<<"1", "2", ".", " ", "T", "h", "i", "r", "d">>)>> }  \* "[3]", "[a] b", "12. Third"

InitReferences ==
    /\ pc = "start"
    /\ \E refs \in RefLists :
          tex_content = JDict([title |-> JStr(<<"A", " ", "T", "i", "t", "l", "e">>), references |-> JList(refs)])  \* "A Title"
    /\ tex_rules = FullRules
    /\ is_chinese = FALSE
    /\ tex_lines = <<>>
    /\ tex_error = ""
    /\ IdleClassify /\ IdlePaper /\ IdleResolve /\ IdleFormat /\ IdleEscape /\ IdleCitation /\ IdlePara /\ IdleAnalyze /\ IdleRun /\ IdlePage /\ IdleHeap /\ IdleMarkdown

SpecReferences == InitReferences /\ [][NextLatex]_vars

\* ---- Claims on the reference list ----
References == tex_content.dict["references"].list

\* The lines between \begin{enumerate} and \end{enumerate}: the last lines
\* are the items, \end{enumerate}, an empty line and \end{document}
ItemLine(i) == tex_lines[Len(tex_lines) - 3 - Len(References) + i]

\* The end of a leading bracketed numeral, "[", digits, "]", and the blanks
\* after it; 0 when the text does not begin with one
BracketedNumeralEnd(ref) ==
    LET digits_end == RunEnd(ref, 2, DigitChars)
    IN  IF Len(ref) >= 3 /\ ref[1] = "[" /\ digits_end >= 2
           /\ digits_end < Len(ref) /\ ref[digits_end + 1] = "]"
        THEN RunEnd(ref, digits_end + 2, Whitespace)
        ELSE 0
WithoutBracketedNumeral(ref) == SubSeq(ref, BracketedNumeralEnd(ref) + 1, Len(ref))

\* C24: each reference is one \item, in input order, whose text is the
\* escaped reference without a leading bracketed numeral and with nothing
\* else removed
C24_ReferenceItems ==
    pc = "done" /\ References # <<>> =>
        /\ tex_lines[Len(tex_lines) - 3 - Len(References)] = <<"\\", "b", "e", "g", "i", "n", "{", "e", "n", "u", "m", "e", "r", "a", "t", "e", "}">>  \* "\begin{enumerate}"
        /\ tex_lines[Len(tex_lines) - 2] = <<"\\", "e", "n", "d", "{", "e", "n", "u", "m", "e", "r", "a", "t", "e", "}">>  \* "\end{enumerate}"
        /\ \A i \in 1..Len(References) :
              ItemLine(i) = <<" ", " ", "\\", "i", "t", "e", "m", " ">> \o escape_latex(WithoutBracketedNumeral(References[i].str))  \* "  \item "

\* A reference that begins with a numeral in brackets, or with no digit
\* and no bracket before a digit
NumeralInBrackets(ref) ==
    \/ BracketedNumeralEnd(ref) > 0
    \/ ~(\/ Len(ref) >= 1 /\ ref[1] \in DigitChars
         \/ Len(ref) >= 2 /\ ref[1] = "[" /\ ref[2] \in DigitChars)

\* The items are as stated for every list whose references begin with a
\* numeral in both brackets or with none
C24_BracketedReferenceItems ==
    pc = "done" /\ References # <<>> /\ (\A i \in 1..Len(References) : NumeralInBrackets(References[i].str)) =>
        \A i \in 1..Len(References) :
            ItemLine(i) = <<" ", " ", "\\", "i", "t", "e", "m", " ">> \o escape_latex(WithoutBracketedNumeral(References[i].str))  \* "  \item "

\* ---- Section trees of any depth ----
\* A section whose level field is what the author wrote, right or wrong
LevelledSection(level_field, heading, subsections) ==
    JDict([heading |-> JStr(heading), level |-> JNum(StrOf(level_field)),
           content |-> JList(<<JStr(<<"p">>)>>), subsections |-> JList(subsections)])  \* "p"

\* The level field written at a depth: 1 everywhere, the depth, or the
\* depth counted from the bottom
LevelPatterns == {"one", "depth", "reversed"}
MaxDepth == 6
LevelField(pattern, depth) ==
    IF pattern = "one" THEN 1 ELSE IF pattern = "depth" THEN depth ELSE MaxDepth + 1 - depth

\* The sections at a depth of the tree of widths: widths[depth] sections,
\* the last of them with the sections of the next depth below it
RECURSIVE SectionsBelow(_, _, _)
SectionsBelow(widths, depth, pattern) ==
    IF depth > Len(widths) THEN <<>>
    ELSE [i \in 1..widths[depth] |->
             LevelledSection(LevelField(pattern, depth), <<"S">> \o StrOf(depth) \o StrOf(i),
                             IF i = widths[depth] THEN SectionsBelow(widths, depth + 1, pattern)
                             ELSE <<>>)]

InitSections ==
    /\ pc = "start"
    /\ \E d \in 1..MaxDepth : \E widths \in [1..d -> {1, 2}] : \E pattern \in LevelPatterns :
          tex_content = JDict([sections |-> JList(SectionsBelow(widths, 1, pattern))])
    /\ tex_rules = FullRules
    /\ is_chinese = FALSE
    /\ tex_lines = <<>>
    /\ tex_error = ""
    /\ IdleClassify /\ IdlePaper /\ IdleResolve /\ IdleFormat /\ IdleEscape /\ IdleCitation /\ IdlePara /\ IdleAnalyze /\ IdleRun /\ IdlePage /\ IdleHeap /\ IdleMarkdown

SpecSections == InitSections /\ [][NextLatex]_vars

\* ---- Claims on the heading commands ----
\* The four tiers, the deepest for every depth from 4 on
TierOf(depth) ==
    IF depth = 1 THEN <<"\\", "s", "e", "c", "t", "i", "o", "n", "{">> ELSE IF depth = 2 THEN <<"\\", "s", "u", "b", "s", "e", "c", "t", "i", "o", "n", "{">>  \* "\section{", "\subsection{"
    ELSE IF depth = 3 THEN <<"\\", "s", "u", "b", "s", "u", "b", "s", "e", "c", "t", "i", "o", "n", "{">> ELSE <<"\\", "p", "a", "r", "a", "g", "r", "a", "p", "h", "{">>  \* "\subsubsection{", "\paragraph{"

\* The heading lines of the sections of a list at a depth, each section
\* before its subsections
RECURSIVE HeadingLinesAt(_, _)
HeadingLinesAt(sections, depth) ==
    IF sections = <<>> THEN <<>>
    ELSE <<TierOf(depth) \o Head(sections).dict["heading"].str \o <<"}">>>>  \* "}"
         \o HeadingLinesAt(Head(sections).dict["subsections"].list, depth + 1)
         \o HeadingLinesAt(Tail(sections), depth)

\* The lines emitted that open with a heading command
IsHeadingLine(line) == \E depth \in 1..4 : startswith(line, TierOf(depth))
HeadingLinesEmitted == SelectSeq(tex_lines, IsHeadingLine)

CommandsByDepth ==
    pc = "done" => HeadingLinesEmitted = HeadingLinesAt(tex_content.dict["sections"].list, 1)

\* The recursion over the sections about to be rendered returns, one
\* heading line for each section of the tree
RECURSIVE NodeCount(_)
NodeCount(sections) ==
    IF sections = <<>> THEN 0
    ELSE 1 + NodeCount(Head(sections).dict["subsections"].list) + NodeCount(Tail(sections))

RenderingReturns ==
    pc = "body" =>
        LET sections == tex_content.dict["sections"].list
            rendered == render_sections(sections, 1, 1)
        IN  /\ rendered.raised = ""
            /\ Len(SelectSeq(rendered.value, IsHeadingLine)) = NodeCount(sections)

\* C25: the heading command of a section follows its nesting depth, 1 for a
\* top-level section and one more than the parent's for a subsection,
\* whatever its level field says: section, subsection, subsubsection and
\* paragraph for depths 1 to 4 and paragraph for every greater depth; and
\* on every tree the recursion returns its lines
C25_CommandByDepth == CommandsByDepth /\ RenderingReturns

\* A tree six deep with level fields counted from the bottom: the sections
\* at depths 4, 5 and 6 are paragraphs
C25_Witness ==
    /\ pc = "done"
    /\ \E i \in 1..Len(tex_lines) :
          /\ tex_lines[i] = <<"\\", "p", "a", "r", "a", "g", "r", "a", "p", "h", "{", "S", "4", "1", "}">>  \* "\paragraph{S41}"
          /\ \E j \in (i + 1)..Len(tex_lines) :
                /\ tex_lines[j] = <<"\\", "p", "a", "r", "a", "g", "r", "a", "p", "h", "{", "S", "5", "1", "}">>  \* "\paragraph{S51}"
                /\ \E k \in (j + 1)..Len(tex_lines) : tex_lines[k] = <<"\\", "p", "a", "r", "a", "g", "r", "a", "p", "h", "{", "S", "6", "2", "}">>  \* "\paragraph{S62}"
    /\ tex_content.dict["sections"].list[1].dict["level"] # JNum(<<"1">>)  \* "1"

\* ---- Claims on ties between citation families ----
\* The fixed order of the families
FamilyOrder ==
    <<"numeric_bracket", "numeric_superscript", "author_year_paren", "author_year_cn">>

\* The families that share the highest count
Highest(counts) == {f \in DOMAIN counts : \A g \in DOMAIN counts : counts[g] <= counts[f]}

\* The paragraph sequence in another order
Orders(n) == {q \in [1..n -> 1..n] : \A i, j \in 1..n : q[i] = q[j] => i = j}
Reordered(q) == [i \in 1..Len(paragraphs) |-> paragraphs[q[i]]]

\* Paragraphs whose families tie: one and two matches of each kind
TieTexts ==
    { <<"[", "1", "]">>, <<"(", "S", "m", "i", "t", "h", ",", " ", "2", "0", "2", "0", ")">>, <<"UFF08", "U5F20", "U4E09", "UFF0C", "2", "0", "2", "0", "UFF09", "(", " ", "U5B8B", "U4F53", " ", ",", " ", "2", "0", "2", "1", " ", ")">>,  \* "[1]", "(Smith, 2020)", "\uff08\u5f20\u4e09\uff0c2020\uff09( \u5b8b\u4f53 , 2021 )"
      <<"(", "S", "m", "i", "t", "h", " ", "a", "n", "d", " ", "J", "o", "n", "e", "s", " ", "2", "0", "1", "9", ")", ",", " ", "(", "L", "e", "e", " ", "&", " ", "K", "i", "m", ",", " ", " ", "2", "0", "1", "8", ")">>, <<"a", "s", " ", "s", "h", "o", "w", "n", "^", "[", "4", "]", " ", "a", "n", "d", " ", "[", "1", "2", "]", "[", "1", "3", "]">>, <<"^", "[", "5", "]", "^", "[", "6", "]">> }  \* "(Smith and Jones 2019), (Lee & Kim,  2018)", "as shown^[4] and [12][13]", "^[5]^[6]"

InitCitationTies ==
    /\ pc = "start"
    /\ paragraphs \in SeqsUpTo(TieTexts, MaxParagraphs)
    /\ citation_style = <<>>
    /\ IdleClassify /\ IdlePaper /\ IdleResolve /\ IdleFormat /\ IdleEscape /\ IdlePara /\ IdleAnalyze /\ IdleRun /\ IdlePage /\ IdleLatex /\ IdleHeap /\ IdleMarkdown

SpecCitationTies == InitCitationTies /\ [][NextCitation]_vars

\* C26: when two or more families share the highest count and it is not 0,
\* the label is that of the one that comes first in the order numeric_bracket,
\* numeric_superscript, author_year_paren, author_year_cn; and every
\* permutation of the paragraphs has the same result
C26_FirstInOrderOnTie ==
    pc = "done" =>
        LET counts == citation_style.citation_counts
        IN  /\ \A k \in 1..Len(FamilyOrder) :
                 ( /\ FamilyOrder[k] \in Highest(counts)
                   /\ counts[FamilyOrder[k]] > 0
                   /\ Cardinality(Highest(counts)) >= 2
                   /\ \A j \in 1..(k - 1) : FamilyOrder[j] \notin Highest(counts) )
                 => citation_style.detected_style = style_map[FamilyOrder[k]]
            /\ \A q \in Orders(Len(paragraphs)) :
                 detect_citation_style(Reordered(q)) = citation_style

\* The two author-year families tie at 2, the Chinese one met first; and the
\* bracket and parenthetical families tie at 1, the parenthetical one met first
C26_Witness ==
    /\ pc = "done"
    /\ \/ /\ paragraphs = <<<<"UFF08", "U5F20", "U4E09", "UFF0C", "2", "0", "2", "0", "UFF09", "(", " ", "U5B8B", "U4F53", " ", ",", " ", "2", "0", "2", "1", " ", ")">>, <<"(", "S", "m", "i", "t", "h", " ", "a", "n", "d", " ", "J", "o", "n", "e", "s", " ", "2", "0", "1", "9", ")", ",", " ", "(", "L", "e", "e", " ", "&", " ", "K", "i", "m", ",", " ", " ", "2", "0", "1", "8", ")">>>>  \* "\uff08\u5f20\u4e09\uff0c2020\uff09( \u5b8b\u4f53 , 2021 )", "(Smith and Jones 2019), (Lee & Kim,  2018)"
          /\ citation_style.citation_counts["author_year_paren"] = 2
          /\ citation_style.citation_counts["author_year_cn"] = 2
          /\ citation_style.detected_style = <<"a", "u", "t", "h", "o", "r", "-", "y", "e", "a", "r", " ", "(", "e", ".", "g", ".", ",", " ", "A", "P", "A", ",", " ", "C", "h", "i", "c", "a", "g", "o", " ", "a", "u", "t", "h", "o", "r", "-", "d", "a", "t", "e", ")">>  \* "author-year (e.g., APA, Chicago author-date)"
       \/ /\ paragraphs = <<<<"(", "S", "m", "i", "t", "h", ",", " ", "2", "0", "2", "0", ")">>, <<"[", "1", "]">>>>  \* "(Smith, 2020)", "[1]"
          /\ citation_style.citation_counts["author_year_paren"] = 1
          /\ citation_style.citation_counts["numeric_bracket"] = 1
          /\ citation_style.detected_style = <<"n", "u", "m", "e", "r", "i", "c", " ", "(", "e", ".", "g", ".", ",", " ", "G", "B", "/", "T", " ", "7", "7", "1", "4", " ", "n", "u", "m", "e", "r", "i", "c", ",", " ", "I", "E", "E", "E", ",", " ", "V", "a", "n", "c", "o", "u", "v", "e", "r", ")">>  \* "numeric (e.g., GB/T 7714 numeric, IEEE, Vancouver)"

\* ---- Claims on the superscript family ----
\* C27: the numeric_bracket count is never below the numeric_superscript
\* count, because a bracket match starts one character after the start of
\* every superscript match; with ties going to the first family in order, the
\* numeric-superscript label is never the one reported
C27_SuperscriptNeverReported ==
    pc = "done" =>
        LET counts == citation_style.citation_counts
        IN  /\ counts["numeric_bracket"] >= counts["numeric_superscript"]
            /\ \A m \in MatchesOf("numeric_superscript") :
                  <<m[1], m[2] + 1>> \in MatchesOf("numeric_bracket")
            /\ citation_style.detected_style # <<"n", "u", "m", "e", "r", "i", "c", " ", "s", "u", "p", "e", "r", "s", "c", "r", "i", "p", "t", " ", "(", "e", ".", "g", ".", ",", " ", "V", "a", "n", "c", "o", "u", "v", "e", "r", ")">>  \* "numeric superscript (e.g., Vancouver)"

\* Every citation of the document is a superscript one: the two counts are
\* equal and the bracket label is reported
C27_Witness ==
    /\ pc = "done"
    /\ paragraphs = <<<<"^", "[", "5", "]", "^", "[", "6", "]">>, <<"^", "[", "5", "]", "^", "[", "6", "]">>>>  \* "^[5]^[6]", "^[5]^[6]"
    /\ citation_style.citation_counts["numeric_superscript"] = 4
    /\ citation_style.citation_counts["numeric_bracket"] = 4
    /\ citation_style.detected_style = <<"n", "u", "m", "e", "r", "i", "c", " ", "(", "e", ".", "g", ".", ",", " ", "G", "B", "/", "T", " ", "7", "7", "1", "4", " ", "n", "u", "m", "e", "r", "i", "c", ",", " ", "I", "E", "E", "E", ",", " ", "V", "a", "n", "c", "o", "u", "v", "e", "r", ")">>  \* "numeric (e.g., GB/T 7714 numeric, IEEE, Vancouver)"

(***************************************************************************)
(* The extractor's citation style handed to the typesetting backend: the   *)
(* model analyze_docx writes is the style_rules generate_latex loads.      *)
(***************************************************************************)
Loaded == DOMAIN tex_rules # {}

\* analyze_docx lines 323-330 and 351: the model written as JSON, with the
\* result of detect_citation_style under "citation_style"
style_rules_json(detected_in) ==
    JDict([page_layout |-> FullLayout,
           paragraph_formatting |-> JDict([body |-> FullBody, heading_1 |-> FullHeading]),
           citation_style |->
               JDict([detected_style |-> JStr(detected_in.detected_style),
                      citation_counts |->
                          JDict([f \in DOMAIN detected_in.citation_counts |->
                                    JNum(StrOf(detected_in.citation_counts[f]))])])])

InitPipeline ==
    /\ pc = "start"
    /\ paragraphs \in SeqsUpTo(TieTexts, MaxParagraphs)
    /\ citation_style = <<>>
    /\ IdleClassify /\ IdlePaper /\ IdleResolve /\ IdleFormat /\ IdleEscape /\ IdlePara /\ IdleAnalyze /\ IdleRun /\ IdlePage /\ IdleLatex /\ IdleHeap /\ IdleMarkdown

\* analyze_document on the reference document
ExtractCitationStyle == ~Loaded /\ DetectCitationStyle

\* generate_latex main, lines 515-519: content and style_rules are loaded
LoadStyleRules ==
    /\ pc = "done"
    /\ ~Loaded
    /\ tex_rules' = style_rules_json(citation_style)
    /\ tex_content' = FullContent
    /\ pc' = "start"
    /\ UNCHANGED <<is_chinese, tex_lines, tex_error>>
    /\ UNCHANGED <<classifyVars, paperVars, resolveVars, formatVars, escapeVars, citationVars, paraVars, analyzeVars, runVars, pageVars, heapVars, markdownVars>>

\* generate_latex on what was loaded
GenerateLatex == Loaded /\ NextLatex

NextPipeline == ExtractCitationStyle \/ LoadStyleRules \/ GenerateLatex
SpecPipeline == InitPipeline /\ [][NextPipeline]_vars

\* ---- Claims on the package of an extracted label ----
\* The configuration of each label the detector has, "" for the default
ConfigurationOf(label) ==
    CASE label = <<"n", "u", "m", "e", "r", "i", "c", " ", "(", "e", ".", "g", ".", ",", " ", "G", "B", "/", "T", " ", "7", "7", "1", "4", " ", "n", "u", "m", "e", "r", "i", "c", ",", " ", "I", "E", "E", "E", ",", " ", "V", "a", "n", "c", "o", "u", "v", "e", "r", ")">> -> "gb7714_numeric"  \* "numeric (e.g., GB/T 7714 numeric, IEEE, Vancouver)"
      [] label = <<"a", "u", "t", "h", "o", "r", "-", "y", "e", "a", "r", " ", "C", "h", "i", "n", "e", "s", "e", " ", "(", "e", ".", "g", ".", ",", " ", "G", "B", "/", "T", " ", "7", "7", "1", "4", " ", "a", "u", "t", "h", "o", "r", "-", "y", "e", "a", "r", ")">> -> "gb7714_authoryear"  \* "author-year Chinese (e.g., GB/T 7714 author-year)"
      [] label = <<"a", "u", "t", "h", "o", "r", "-", "y", "e", "a", "r", " ", "(", "e", ".", "g", ".", ",", " ", "A", "P", "A", ",", " ", "C", "h", "i", "c", "a", "g", "o", " ", "a", "u", "t", "h", "o", "r", "-", "d", "a", "t", "e", ")">> -> "apa"  \* "author-year (e.g., APA, Chicago author-date)"
      [] label = <<"n", "u", "m", "e", "r", "i", "c", " ", "s", "u", "p", "e", "r", "s", "c", "r", "i", "p", "t", " ", "(", "e", ".", "g", ".", ",", " ", "V", "a", "n", "c", "o", "u", "v", "e", "r", ")">> -> "vancouver"  \* "numeric superscript (e.g., Vancouver)"
      [] label = <<"u", "n", "k", "n", "o", "w", "n">> -> ""  \* "unknown"

\* The two lines of a configuration: its comment and its package
LinesOf(key, label) ==
    IF key = "" THEN <<<<"%", " ", "=", "=", "=", " ", "C", "i", "t", "a", "t", "i", "o", "n", " ", "(", "d", "e", "f", "a", "u", "l", "t", " ", "n", "u", "m", "e", "r", "i", "c", ")", " ", "=", "=", "=">>,  \* "% === Citation (default numeric) ==="
                       <<"\\", "u", "s", "e", "p", "a", "c", "k", "a", "g", "e", "[", "n", "u", "m", "b", "e", "r", "s", ",", "s", "o", "r", "t", "&", "c", "o", "m", "p", "r", "e", "s", "s", "]", "{", "n", "a", "t", "b", "i", "b", "}">>>>  \* "\usepackage[numbers,sort&compress]{natbib}"
    ELSE <<<<"%", " ", "=", "=", "=", " ", "C", "i", "t", "a", "t", "i", "o", "n", " ", "S", "t", "y", "l", "e", ":", " ">> \o label \o <<" ", "=", "=", "=">>, CITATION_PACKAGES[key].package>>  \* "% === Citation Style: ", " ==="

DetectorLabels == {style_map[name] : name \in DOMAIN style_map} \cup {<<"u", "n", "k", "n", "o", "w", "n">>}  \* "unknown"

\* C28: each label of the detector selects its configuration: the
\* numeric-bracket label, which contains "GB/T 7714", gb7714-numeric; the
\* author-year-Chinese label gb7714-authoryear; the author-year-parenthetical
\* label apa; the numeric-superscript label vancouver; `unknown` the default
\* numeric natbib line; so a model of the extractor never selects ieee,
\* author-year or numeric
C28_ExtractedLabelPackage ==
    /\ \A label \in DetectorLabels :
          /\ cit_key_of(label) = ConfigurationOf(label)
          /\ cit_key_of(label) \notin {"ieee", "author_year", "numeric"}
    /\ Contains(style_map["numeric_bracket"], <<"G", "B", "/", "T", " ", "7", "7", "1", "4">>)  \* "GB/T 7714"
    /\ Loaded /\ CitationDone =>
          /\ citation_style.detected_style \in DetectorLabels
          /\ CitationLabel.str = citation_style.detected_style
          /\ <<tex_lines[Len(tex_lines) - 2], PackageLine>>
               = LinesOf(ConfigurationOf(citation_style.detected_style),
                         citation_style.detected_style)

\* A reference document with Chinese author-year citations has selected the
\* GB/T 7714 author-year style
C28_Witness ==
    /\ Loaded /\ CitationDone
    /\ paragraphs = <<<<"UFF08", "U5F20", "U4E09", "UFF0C", "2", "0", "2", "0", "UFF09", "(", " ", "U5B8B", "U4F53", " ", ",", " ", "2", "0", "2", "1", " ", ")">>>>  \* "\uff08\u5f20\u4e09\uff0c2020\uff09( \u5b8b\u4f53 , 2021 )"
    /\ citation_style.detected_style = <<"a", "u", "t", "h", "o", "r", "-", "y", "e", "a", "r", " ", "C", "h", "i", "n", "e", "s", "e", " ", "(", "e", ".", "g", ".", ",", " ", "G", "B", "/", "T", " ", "7", "7", "1", "4", " ", "a", "u", "t", "h", "o", "r", "-", "y", "e", "a", "r", ")">>  \* "author-year Chinese (e.g., GB/T 7714 author-year)"
    /\ PackageLine = <<"\\", "u", "s", "e", "p", "a", "c", "k", "a", "g", "e", "[", "s", "t", "y", "l", "e", "=", "g", "b", "7", "7", "1", "4", "-", "2", "0", "1", "5", "a", "y", ",", "b", "a", "c", "k", "e", "n", "d", "=", "b", "i", "b", "e", "r", "]", "{", "b", "i", "b", "l", "a", "t", "e", "x", "}">>  \* "\usepackage[style=gb7714-2015ay,backend=biber]{biblatex}"

(***************************************************************************)
(* The two backends on one Content Tree: format_document, then             *)
(* generate_latex on the same content.json.                                *)
(***************************************************************************)
\* Section trees with headings that tell the sections apart, characters
\* that are escaped, blank paragraphs and a section without heading text
TreeKinds == {"plain", "blank", "bare"}
MaxTreeDepth == 3

TreeHeading(kind, depth, i) ==
    IF kind = "bare" /\ i = 1 THEN <<>> ELSE <<"S">> \o StrOf(depth) \o StrOf(i) \o <<"&", "_">>  \* "S", "&_"

TreeBody(kind, depth, i) ==
    IF kind = "plain" THEN <<<<"p">> \o StrOf(depth) \o StrOf(i)>>  \* "p"
    ELSE IF kind = "blank"
         THEN <<<<" ">>, <<"a", "\\", "b", "{">> \o StrOf(depth) \o StrOf(i) \o <<"}", "~">>, <<>>, <<"5", "0", "%", " ", "^", "#", "$">>>>  \* " ", "a\b{", "}~", "50% ^#$"
         ELSE (IF i = 2 THEN <<>> ELSE <<<<" ", " ">>, <<"x">>, <<"\\", "&">>>>)  \* "  ", "x", "\&"

RECURSIVE TreeBelow(_, _, _)
TreeBelow(widths, depth, kind) ==
    IF depth > Len(widths) THEN <<>>
    ELSE [i \in 1..widths[depth] |->
             [heading |-> TreeHeading(kind, depth, i), level |-> depth,
              content |-> TreeBody(kind, depth, i),
              subsections |-> IF i = widths[depth] THEN TreeBelow(widths, depth + 1, kind)
                              ELSE <<>>]]

\* json.load of the same content.json: the sections as generate_latex has them
RECURSIVE sections_json(_)
sections_json(sections) ==
    [i \in 1..Len(sections) |->
        JDict([heading |-> JStr(sections[i].heading), level |-> JNum(StrOf(sections[i].level)),
               content |-> JList([j \in 1..Len(sections[i].content) |-> JStr(sections[i].content[j])]),
               subsections |-> JList(sections_json(sections[i].subsections))])]

InitBackends ==
    /\ pc = "start"
    /\ \E d \in 1..MaxTreeDepth : \E widths \in [1..d -> {1, 2}] : \E kind \in TreeKinds :
          content = ("sections" :> TreeBelow(widths, 1, kind))
    /\ doc = <<>>
    /\ IdleClassify /\ IdlePaper /\ IdleEscape /\ IdleCitation /\ IdlePara /\ IdleAnalyze /\ IdleRun /\ IdlePage /\ IdleLatex /\ IdleHeap /\ IdleMarkdown
    /\ style_rules = SampleStyleRules /\ fmt_role = "" /\ defaults = <<>>
    /\ fmt = <<>> /\ fmt_again = <<>> /\ fmt_over = <<>>

\* format_docx main: the flowing document of the Content Tree
FormatContentTree == ~Loaded /\ FormatDocument

\* generate_latex main, lines 515-519, on the same content.json
LoadContentTree ==
    /\ pc = "done"
    /\ ~Loaded
    /\ tex_content' = JDict([sections |-> JList(sections_json(content["sections"]))])
    /\ tex_rules' = FullRules
    /\ pc' = "start"
    /\ UNCHANGED <<is_chinese, tex_lines, tex_error>>
    /\ UNCHANGED <<classifyVars, paperVars, resolveVars, formatVars, escapeVars, citationVars, paraVars, analyzeVars, runVars, pageVars, heapVars, markdownVars>>

NextBackends == FormatContentTree \/ LoadContentTree \/ GenerateLatex
SpecBackends == InitBackends /\ [][NextBackends]_vars

\* ---- Claims on the items of the two backends ----
\* The items of a list of sections: for each section its heading, its
\* paragraphs that are not whitespace-only, then the items of its subsections
RECURSIVE ItemsOf(_)
ItemsOf(sections) ==
    IF sections = <<>> THEN <<>>
    ELSE LET first == Head(sections)
             NotBlank(t) == \E k \in 1..Len(t) : t[k] \notin Whitespace
             kept == SelectSeq(first.content, NotBlank)
         IN  << <<"heading", first.heading>> >>
             \o [j \in 1..Len(kept) |-> <<"paragraph", kept[j]>>]
             \o ItemsOf(first.subsections)
             \o ItemsOf(Tail(sections))

\* A heading text without its numbering prefix: the digits and dots before
\* the first space
WithoutNumbering(t) ==
    LET numbered == RunEnd(t, 1, DigitChars \cup {"."})
    IN  IF numbered >= 1 /\ At(t, numbered + 1) = " " THEN SubSeq(t, numbered + 2, Len(t)) ELSE t

\* The text an escaped text was made from: each replacement read back as
\* its character
RECURSIVE Unescaped(_)
Unescaped(t) ==
    IF t = <<>> THEN <<>>
    ELSE IF startswith(t, <<"\\", "t", "e", "x", "t", "a", "s", "c", "i", "i", "t", "i", "l", "d", "e", "{", "}">>)  \* "\textasciitilde{}"
         THEN <<"~">> \o Unescaped(SubSeq(t, Len(<<"\\", "t", "e", "x", "t", "a", "s", "c", "i", "i", "t", "i", "l", "d", "e", "{", "}">>) + 1, Len(t)))  \* "\textasciitilde{}"
    ELSE IF startswith(t, <<"\\", "t", "e", "x", "t", "a", "s", "c", "i", "i", "c", "i", "r", "c", "u", "m", "{", "}">>)  \* "\textasciicircum{}"
         THEN <<"^">> \o Unescaped(SubSeq(t, Len(<<"\\", "t", "e", "x", "t", "a", "s", "c", "i", "i", "c", "i", "r", "c", "u", "m", "{", "}">>) + 1, Len(t)))  \* "\textasciicircum{}"
    ELSE IF Head(t) = "\\" /\ At(t, 2) \in {"&", "%", "$", "#", "_", "{", "}"}
         THEN <<t[2]>> \o Unescaped(SubSeq(t, 3, Len(t)))
    ELSE <<Head(t)>> \o Unescaped(Tail(t))

\* The items of the flowing document: its heading and body paragraphs
IsSectionParagraph(p) == p.part \in {"heading", "body"}
FlowingItems ==
    LET added == SelectSeq(doc, IsSectionParagraph)
    IN  [j \in 1..Len(added) |->
            IF added[j].part = "heading" THEN <<"heading", WithoutNumbering(added[j].text)>>
            ELSE <<"paragraph", added[j].text>>]

\* The items of the typesetting source: the lines of the body that are not
\* empty, a heading command with the text in its braces
TypesettingItems ==
    LET begin == CHOOSE k \in 1..Len(tex_lines) : tex_lines[k] = <<"\\", "b", "e", "g", "i", "n", "{", "d", "o", "c", "u", "m", "e", "n", "t", "}">>  \* "\begin{document}"
        inside == SubSeq(tex_lines, begin + 1, Len(tex_lines) - 1)
        NotEmpty(line) == line # <<>>
        written == SelectSeq(inside, NotEmpty)
        tier(line) == CHOOSE depth \in 1..4 : startswith(line, TierOf(depth))
    IN  [j \in 1..Len(written) |->
            IF IsHeadingLine(written[j])
            THEN <<"heading", Unescaped(SubSeq(written[j], Len(TierOf(tier(written[j]))) + 1,
                                               Len(written[j]) - 1))>>
            ELSE <<"paragraph", Unescaped(written[j])>>]

BothWritten == Loaded /\ pc = "done"

\* C29: both backends emit, for every Content Tree, the same sequence of
\* items in depth-first pre-order: for each section one heading, then its
\* content paragraphs that are not whitespace-only, in input order, then its
\* subsections; the flowing sequence without numbering prefixes equals the
\* typesetting sequence with escaping undone
C29_SameItems ==
    BothWritten =>
        /\ FlowingItems = ItemsOf(content["sections"])
        /\ TypesettingItems = ItemsOf(content["sections"])
        /\ FlowingItems = TypesettingItems

\* A tree three deep with blank paragraphs and escaped characters: seven
\* or more items, the same in both documents
C29_Witness ==
    /\ BothWritten
    /\ Len(TypesettingItems) >= 7
    /\ <<"paragraph", <<"5", "0", "%", " ", "^", "#", "$">>>> \in {FlowingItems[j] : j \in 1..Len(FlowingItems)}  \* "50% ^#$"
    /\ <<"heading", <<"S", "3", "1", "&", "_">>>> \in {TypesettingItems[j] : j \in 1..Len(TypesettingItems)}  \* "S31&_"
    /\ \E j \in 1..Len(doc) : doc[j].text = <<"1", ".", "1", ".", "1", " ", "S", "3", "1", "&", "_">>  \* "1.1.1 S31&_"
    /\ \E j \in 1..Len(tex_lines) : tex_lines[j] = <<"\\", "s", "u", "b", "s", "u", "b", "s", "e", "c", "t", "i", "o", "n", "{", "S", "3", "1", "\\", "&", "\\", "_", "}">>  \* "\subsubsection{S31\&\_}"

(***************************************************************************)
(* Markdown reader: generate_docx.parse_markdown.  A section is a record   *)
(* of type, heading (None for the leading section), level and paragraphs.  *)
(***************************************************************************)
\* md_text.split("\n")
RECURSIVE split_lines(_)
split_lines(s) ==
    LET breaks == {i \in 1..Len(s) : s[i] = "\n"}
    IN  IF breaks = {} THEN <<s>>
        ELSE <<SubSeq(s, 1, Min(breaks) - 1)>> \o split_lines(SubSeq(s, Min(breaks) + 1, Len(s)))

\* A heading of up to six marks
heading_match_six(stripped) ==
    LET marks == RunEnd(stripped, 1, {"#"})
        blanks == RunEnd(stripped, marks + 1, Whitespace)
    IN  IF marks >= 1 /\ marks <= 6 /\ blanks > marks /\ blanks < Len(stripped)
        THEN <<SubSeq(stripped, 1, marks), SubSeq(stripped, blanks + 1, Len(stripped))>>
        ELSE None

\* Line 99: re.match(r"^(#{1,4})\s+(.+)$", stripped): the two groups, None
\* without a match
heading_match(stripped) ==
    LET marks == RunEnd(stripped, 1, {"#"})
        blanks == RunEnd(stripped, marks + 1, Whitespace)
    IN  IF marks >= 1 /\ marks <= 4 /\ blanks > marks /\ blanks < Len(stripped)
        THEN <<SubSeq(stripped, 1, marks), SubSeq(stripped, blanks + 1, Len(stripped))>>
        ELSE None

\* Lines 102-106, 120-124 and 130-133: the buffer flushed into the section
flush(current_section, buffer) ==
    IF buffer # <<>> /\ strip(join(<<" ">>, buffer)) # <<>>  \* " "
    THEN [current_section EXCEPT !.paragraphs = Append(@, strip(join(<<" ">>, buffer)))]  \* " "
    ELSE current_section

\* Lines 108-109 and 134-135: the section saved when it has a heading or a
\* paragraph
saved(sections, current_section) ==
    IF (current_section.heading # None /\ current_section.heading # <<>>)
       \/ current_section.paragraphs # <<>>
    THEN Append(sections, current_section) ELSE sections

\* Lines 96-127: the loop over the lines, from the i-th on
RECURSIVE parse_lines(_, _, _, _, _)
parse_lines(lines, i, sections, current_section, buffer) ==
    IF i > Len(lines) THEN saved(sections, flush(current_section, buffer))
    ELSE LET stripped == strip(lines[i])
             matched == heading_match(stripped)
         IN  IF matched # None
             THEN LET heading_text == strip(matched[2])
                  IN  parse_lines(lines, i + 1, saved(sections, flush(current_section, buffer)),
                          [type |-> IF Contains(lower(heading_text), <<"r", "e", "f", "e", "r", "e", "n", "c", "e">>)  \* "reference"
                                    THEN "references" ELSE "body",
                           heading |-> heading_text, level |-> Len(matched[1]),
                           paragraphs |-> <<>>],
                          <<>>)
             ELSE IF stripped = <<>>
             THEN parse_lines(lines, i + 1, sections, flush(current_section, buffer), <<>>)
             ELSE parse_lines(lines, i + 1, sections, current_section, Append(buffer, stripped))

\* Lines 89-137
parse_markdown(text_in) ==
    parse_lines(split_lines(text_in), 1, <<>>,
                [type |-> "body", heading |-> None, level |-> 0, paragraphs |-> <<>>], <<>>)

\* Markdown texts: at most MaxMdLines lines, each from MdLines
MaxMdLines == 3
MdLines ==
    { <<>>, <<" ", " ">>, <<"a">>, <<" ", "b", " ", " ", "c", " ">>, <<"#", " ", "H">>, <<"#", "#", " ", " ", "R", "e", "f", "e", "r", "e", "n", "c", "e", "s", " ">>, <<"#", "#", "#", "#", "\t", "D", " ", "e">>, <<"#", "#", "#", "#", "#", " ", "f", "i", "v", "e">>,  \* "  ", "a", " b  c ", "# H", "##  References ", "####\tD e", "##### five"
      <<"#", "x">> }  \* "#x"

InitMarkdown ==
    /\ pc = "start"
    /\ \E lines \in SeqsUpTo(MdLines, MaxMdLines) : md_text = join(<<"\n">>, lines)
    /\ md_sections = <<>>
    /\ IdleClassify /\ IdlePaper /\ IdleResolve /\ IdleFormat /\ IdleEscape /\ IdleCitation /\ IdlePara /\ IdleAnalyze /\ IdleRun /\ IdlePage /\ IdleLatex /\ IdleHeap

\* Line 160: sections = parse_markdown(md_text)
ParseMarkdown ==
    /\ pc = "start"
    /\ md_sections' = parse_markdown(md_text)
    /\ pc' = "done"
    /\ UNCHANGED md_text
    /\ UNCHANGED <<classifyVars, paperVars, resolveVars, formatVars, escapeVars, citationVars, paraVars, analyzeVars, runVars, pageVars, latexVars, heapVars>>

NextMarkdown == ParseMarkdown
SpecMarkdown == InitMarkdown /\ [][NextMarkdown]_vars

\* ---- Claims on the markdown reader ----
\* The lines of the text: the k-th lies between the (k-1)-th and the k-th
\* line break
LineEnds == {i \in 1..Len(md_text) : md_text[i] = "\n"} \cup {0, Len(md_text) + 1}
NthEnd(k) == CHOOSE i \in LineEnds : Cardinality({j \in LineEnds : j < i}) = k
LineCount == Cardinality(LineEnds) - 1
Trimmed(k) == strip(SubSeq(md_text, NthEnd(k - 1) + 1, NthEnd(k) - 1))

\* A heading line: 1 to 4 marks, white space, text
Marks(k) == RunEnd(Trimmed(k), 1, {"#"})
IsHeadingAt(k) == Marks(k) \in 1..4 /\ At(Trimmed(k), Marks(k) + 1) \in Whitespace
IsBlankAt(k) == Trimmed(k) = <<>>
IsTextAt(k) == ~IsBlankAt(k) /\ ~IsHeadingAt(k)

\* The text of a line that is not blank: what follows the marks of a
\* heading, the line without the white space around it otherwise
LineText(k) ==
    IF IsHeadingAt(k) THEN strip(SubSeq(Trimmed(k), Marks(k) + 1, Len(Trimmed(k))))
    ELSE Trimmed(k)

\* The lines from the k-th up to the first blank or heading line after it
RECURSIVE ParagraphFrom(_)
ParagraphFrom(k) ==
    IF k < LineCount /\ IsTextAt(k + 1) THEN Trimmed(k) \o <<" ">> \o ParagraphFrom(k + 1)  \* " "
    ELSE Trimmed(k)

\* The items of the text from the k-th line on: a heading for each heading
\* line, a paragraph for each run of text lines
RECURSIVE ItemsFrom(_)
ItemsFrom(k) ==
    IF k > LineCount THEN <<>>
    ELSE IF IsHeadingAt(k) THEN << <<"heading", LineText(k)>> >> \o ItemsFrom(k + 1)
    ELSE IF IsTextAt(k) /\ (k = 1 \/ ~IsTextAt(k - 1))
         THEN << <<"paragraph", ParagraphFrom(k)>> >> \o ItemsFrom(k + 1)
    ELSE ItemsFrom(k + 1)

\* The sections read in order: the heading of each, if any, then its
\* paragraphs
RECURSIVE SectionsRead(_)
SectionsRead(sections) ==
    IF sections = <<>> THEN <<>>
    ELSE (IF Head(sections).heading = None THEN <<>>
          ELSE << <<"heading", Head(sections).heading>> >>)
         \o [j \in 1..Len(Head(sections).paragraphs) |-> <<"paragraph", Head(sections).paragraphs[j]>>]
         \o SectionsRead(Tail(sections))

\* The texts of a sequence of items, each followed by a space
RECURSIVE Spelled(_)
Spelled(items) ==
    IF items = <<>> THEN <<>> ELSE Head(items)[2] \o <<" ">> \o Spelled(Tail(items))  \* " "

RECURSIVE LinesSpelled(_)
LinesSpelled(k) ==
    IF k > LineCount THEN <<>>
    ELSE (IF IsBlankAt(k) THEN <<>> ELSE LineText(k) \o <<" ">>) \o LinesSpelled(k + 1)  \* " "

====
